---- MODULE Spec2Model ----
(***************************************************************************)
(* State-machine model of sbwatch.strategy.SBEngine (the streaming         *)
(* sweep / displacement / fair-value-gap / return engine).                 *)
(*                                                                         *)
(* Prices are integers in hundredths of a point (100.00 -> 10000), so the  *)
(* float thresholds of the source keep their exact meaning:                *)
(*   SB_FVG_MIN 0.15 -> 15, SB_SL_BUFFER 5.0 -> 500.                       *)
(* Timestamps are epoch milliseconds.  Python's None is the empty tuple    *)
(* <<>> and a present value v is <<v>>.                                    *)
(***************************************************************************)
EXTENDS Integers, Sequences, FiniteSets, TLC

VARIABLES
    levels,                  \* self.levels
    FVG_MODE,                \* module configuration, fixed after import
    _current_minute_bucket,  \* self._current_minute_bucket
    _i,                      \* self._i
    _A, _B, _C,              \* self._A / _B / _C
    _pre_hi, _pre_lo,        \* self._pre_hi / _pre_lo
    _last_bull, _last_bear,  \* self._last_bull / _last_bear
    _notify,                 \* self._notify
    _notify_callable,        \* self._notify_callable
    ticks,                   \* observations folded into the current minute
    script,                  \* how much of the Scenario A feed has been replayed
    log,                     \* a recorded run: the rows fed and the signals sent
    discord,                 \* what notify.post_entry last sent to post_discord
    live,                    \* run_live.main: armed_sent, notices, entry flags
    proxy,                   \* run_minute_proxy: its position and local state
    csv,                     \* the files at LIVE_MINUTE_PATH and its .part
    tail,                    \* a CSV tail reader: last_line, base_ts, seq
    sb_bot,                  \* sb_bot.live_run: buf, fired_bull, fired_bear
    out                      \* what the last call did (input, result, signals)

engine == <<_current_minute_bucket, _i, _A, _B, _C, _pre_hi, _pre_lo,
            _last_bull, _last_bear>>

vars == <<levels, FVG_MODE, _current_minute_bucket, _i, _A, _B, _C, _pre_hi,
          _pre_lo, _last_bull, _last_bear, _notify, _notify_callable, ticks,
          script, log, discord, live, proxy, csv, tail, sb_bot, out>>

\* the state outside the engine and its notifier
handoff == <<proxy, csv, tail, sb_bot>>

-----------------------------------------------------------------------------
(* Python values *)

None == <<>>

Some(v) == <<v>>

Val(x) == x[1]

Max(a, b) == IF a >= b THEN a ELSE b

Min(a, b) == IF a <= b THEN a ELSE b

Abs(a) == IF a >= 0 THEN a ELSE 0 - a

-----------------------------------------------------------------------------
(* Runtime configuration (defaults of the environment overrides) *)

SB_TP_RR == 1

SB_SL_BUFFER == 500

SB_FVG_MIN == 15

\* body/range threshold 0.30, in percent
SB_DISPLACEMENT_MIN == 30

SB_RET_MAX_BARS == 20

INTERNAL_SWEEP_PRE10 == TRUE

\* dt.time(10, 0) and dt.time(11, 0) as milliseconds after local midnight
WINDOW_START == 36000000

WINDOW_END == 39600000

\* t.hour < 10 in _update_pre10, as milliseconds after local midnight
PRE10_CUTOFF == 36000000

\* New York standard time is UTC-5 on the modelled day
ET_OFFSET_MS == 0 - 18000000

DAY_MS == 24 * 3600000

\* datetime.fromtimestamp raises for a timestamp past year 9999 or before
\* year 1; the limit is scaled down to the checker's integer range, every
\* modelled wall-clock timestamp lies well inside it
TS_LIMIT == 2000000000

-----------------------------------------------------------------------------
(* Time helpers *)

\* dt.datetime.fromtimestamp(ts_ms / 1000.0, tz=ET) raises (ValueError /
\* OverflowError) when the timestamp is out of the datetime range
FromTimestampRaises(ts_ms) == ts_ms > TS_LIMIT \/ ts_ms < 0 - TS_LIMIT

\* dt.datetime.fromtimestamp(ts_ms / 1000.0, tz=ET).time()
LocalTime(ts_ms) == (ts_ms + ET_OFFSET_MS) % DAY_MS

_in_entry_window(ts_ms) ==
    /\ WINDOW_START <= LocalTime(ts_ms)
    /\ LocalTime(ts_ms) <= WINDOW_END

minute_bucket(ts_ms) == ts_ms \div 60000

Bar(ts_ms, o, h, l, c) == [ts |-> ts_ms, o |-> o, h |-> h, l |-> l, c |-> c]

-----------------------------------------------------------------------------
(* Sweep / displacement helpers *)

\* _update_pre10 raises before touching the memory when the timestamp cannot
\* be converted
Pre10Raises(ts_ms) == INTERNAL_SWEEP_PRE10 /\ FromTimestampRaises(ts_ms)

\* faulty variant: the memory keeps collecting after the cutoff
Pre10Active_NoCutoff(ts_ms) ==
    /\ INTERNAL_SWEEP_PRE10
    /\ ~FromTimestampRaises(ts_ms)

Pre10Active(ts_ms) ==
    /\ INTERNAL_SWEEP_PRE10
    /\ ~FromTimestampRaises(ts_ms)
    /\ LocalTime(ts_ms) < PRE10_CUTOFF

\* faulty variant: only the first high before the cutoff is remembered
_update_pre10_hi_FirstOnly(pre, ts_ms, h) ==
    IF Pre10Active(ts_ms) /\ pre = None THEN Some(h) ELSE pre

\* new value of self._pre_hi after _update_pre10(ts_ms, h, l)
_update_pre10_hi(pre, ts_ms, h) ==
    IF Pre10Active(ts_ms) /\ (pre = None \/ h > Val(pre)) THEN Some(h) ELSE pre

\* new value of self._pre_lo after _update_pre10(ts_ms, h, l)
_update_pre10_lo(pre, ts_ms, l) ==
    IF Pre10Active(ts_ms) /\ (pre = None \/ l < Val(pre)) THEN Some(l) ELSE pre

_swept_high(L, pre, h) ==
    \/ (L.pdh # None /\ h > Val(L.pdh))
    \/ (L.asia_high # None /\ h > Val(L.asia_high))
    \/ (L.london_high # None /\ h > Val(L.london_high))
    \/ (INTERNAL_SWEEP_PRE10 /\ pre # None /\ h > Val(pre))

\* faulty variant: an absent prior-day low counts as swept
_swept_low_AbsentCounts(L, pre, l) ==
    \/ (L.pdl = None \/ l < Val(L.pdl))
    \/ (L.asia_low # None /\ l < Val(L.asia_low))
    \/ (L.london_low # None /\ l < Val(L.london_low))
    \/ (INTERNAL_SWEEP_PRE10 /\ pre # None /\ l < Val(pre))

_swept_low(L, pre, l) ==
    \/ (L.pdl # None /\ l < Val(L.pdl))
    \/ (L.asia_low # None /\ l < Val(L.asia_low))
    \/ (L.london_low # None /\ l < Val(L.london_low))
    \/ (INTERNAL_SWEEP_PRE10 /\ pre # None /\ l < Val(pre))

\* body / max(1e-9, h - l) kept as the exact fraction body / rng; rng = 0
\* stands for the epsilon 1e-9 (prices are whole hundredths, so a positive
\* range is never below the epsilon)
_displacement(o, h, l, c) == [body |-> Abs(c - o), rng |-> Max(0, h - l)]

\* disp_ref >= SB_DISPLACEMENT_MIN
DispAtLeast(d, pct) ==
    IF d.rng = 0 THEN (pct = 0 \/ d.body > 0)
    ELSE d.body * 100 >= pct * d.rng

-----------------------------------------------------------------------------
(* Fair-value gaps *)

Gap(i, top, bot, disp, c1) ==
    [i |-> i, gap_top |-> top, gap_bot |-> bot, disp |-> disp,
     c1_low |-> c1.l, c1_high |-> c1.h]

\* the bar the gap is measured against: A in 3C mode, B in 2C mode
GapRef(mode, A, B) == IF mode = "3C" THEN A ELSE B

\* (C["l"] - A["h"]) >= SB_FVG_MIN
BullGapCond(ref, C) == (C.l - ref.h) >= SB_FVG_MIN

\* faulty variant: the bearish test accepts a gap on either side
BearGapCond_EitherSide(ref, C) == Abs(ref.l - C.h) >= SB_FVG_MIN

\* (A["l"] - C["h"]) >= SB_FVG_MIN
BearGapCond(ref, C) == (ref.l - C.h) >= SB_FVG_MIN

NewBull(i, ref, C, disp) == Gap(i, C.l, ref.h, disp, ref)

\* faulty variant: the bearish gap's edges are stored the other way round
NewBear_EdgesSwapped(i, ref, C, disp) == Gap(i, C.h, ref.l, disp, ref)

NewBear(i, ref, C, disp) == Gap(i, ref.l, C.h, disp, ref)

\* faulty variant: a pending gap is kept instead of being overwritten
RefreshBull_KeepPending(last, disp_ok, i, ref, C, disp) ==
    IF last # None THEN last
    ELSE IF disp_ok /\ BullGapCond(ref, C) THEN Some(NewBull(i, ref, C, disp))
    ELSE last

\* self._last_bull after the build/refresh block
RefreshBull(last, disp_ok, i, ref, C, disp) ==
    IF disp_ok /\ BullGapCond(ref, C) THEN Some(NewBull(i, ref, C, disp))
    ELSE last

\* self._last_bear after the build/refresh block
RefreshBear(last, disp_ok, i, ref, C, disp) ==
    IF disp_ok /\ BearGapCond(ref, C) THEN Some(NewBear(i, ref, C, disp))
    ELSE last

\* faulty variant: a gap cannot be returned into by the evaluation that made it
BullReturnCond_LaterCall(i, last, C, swept_lo, disp_ok) ==
    /\ (i - last.i) >= 1
    /\ (i - last.i) <= SB_RET_MAX_BARS
    /\ C.l <= last.gap_top
    /\ swept_lo
    /\ disp_ok

\* faulty variant: the bar-distance test is missing
BullReturnCond_NoDistance(i, last, C, swept_lo, disp_ok) ==
    /\ C.l <= last.gap_top
    /\ swept_lo
    /\ disp_ok

\* faulty variant: the low-sweep test is missing
BullReturnCond_NoSweep(i, last, C, swept_lo, disp_ok) ==
    /\ i - last.i <= SB_RET_MAX_BARS
    /\ C.l <= last.gap_top
    /\ disp_ok

\* the condition guarding the LONG post
BullReturnCond(i, last, C, swept_lo, disp_ok) ==
    /\ (i - last.i) <= SB_RET_MAX_BARS
    /\ C.l <= last.gap_top
    /\ swept_lo
    /\ disp_ok

\* faulty variant: the SHORT return does not ask for a qualifying reference bar
BearReturnCond_NoDisp(i, last, C, swept_hi, disp_ok) ==
    /\ (i - last.i) <= SB_RET_MAX_BARS
    /\ C.h >= last.gap_bot
    /\ swept_hi

\* the condition guarding the SHORT post
BearReturnCond(i, last, C, swept_hi, disp_ok) ==
    /\ (i - last.i) <= SB_RET_MAX_BARS
    /\ C.h >= last.gap_bot
    /\ swept_hi
    /\ disp_ok

\* faulty variant: the fired gap is left pending
AfterReturn_NoReset(last, fired) == last

\* self._last_bull / self._last_bear after the return check
AfterReturn(last, fired) == IF fired THEN None ELSE last

\* the pending gaps' creation indices before a call (0: none pending)
PriorGaps(bull, bear) ==
    [bull |-> IF bull # None THEN Val(bull).i ELSE 0,
     bear |-> IF bear # None THEN Val(bear).i ELSE 0]

\* faulty variant: the stop is taken from the gap's bottom instead of the
\* source candle's low
LongSignal_StopFromGap(last, C) ==
    LET entry == last.gap_top
        sl == last.gap_bot - SB_SL_BUFFER
    IN [side |-> "LONG", entry |-> entry, sl |-> sl,
        tp |-> entry + (entry - sl) * SB_TP_RR,
        sweep_label |-> last.disp, when |-> C.ts, gap_i |-> last.i]

LongSignal(last, C) ==
    LET entry == last.gap_top
        sl == last.c1_low - SB_SL_BUFFER
    IN [side |-> "LONG", entry |-> entry, sl |-> sl,
        tp |-> entry + (entry - sl) * SB_TP_RR,
        sweep_label |-> last.disp, when |-> C.ts, gap_i |-> last.i]

\* faulty variant: the buffer is subtracted from the SHORT stop
ShortSignal_StopBelow(last, C) ==
    LET entry == last.gap_bot
        sl == last.c1_high - SB_SL_BUFFER
    IN [side |-> "SHORT", entry |-> entry, sl |-> sl,
        tp |-> entry - (sl - entry) * SB_TP_RR,
        sweep_label |-> last.disp, when |-> C.ts, gap_i |-> last.i]

\* faulty variant: the signal is timed one minute after the oldest bar's
\* timestamp
ShortSignal_WhenNextMinute(last, C) ==
    LET entry == last.gap_bot
        sl == last.c1_high + SB_SL_BUFFER
    IN [side |-> "SHORT", entry |-> entry, sl |-> sl,
        tp |-> entry - (sl - entry) * SB_TP_RR,
        sweep_label |-> last.disp, when |-> C.ts + 60000, gap_i |-> last.i]

ShortSignal(last, C) ==
    LET entry == last.gap_bot
        sl == last.c1_high + SB_SL_BUFFER
    IN [side |-> "SHORT", entry |-> entry, sl |-> sl,
        tp |-> entry - (sl - entry) * SB_TP_RR,
        sweep_label |-> last.disp, when |-> C.ts, gap_i |-> last.i]

-----------------------------------------------------------------------------
(* Posting to the notifier *)

\* what the attribute self._notify can hold: a function, an object with a
\* post_entry method, or None
Notifiers == {"fn", "obj", "none"}

_resolve_notify_callable(n) ==
    IF n = "fn" THEN Some("fn")
    ELSE IF n = "obj" THEN Some("obj.post_entry")
    ELSE None

\* faulty variant: the entries-only gate is missing
PostAllowed_NoGate(ts_ms) == TRUE

\* the entries-only gate: a failing window check lets the post through
PostAllowed(ts_ms) ==
    IF FromTimestampRaises(ts_ms) THEN TRUE ELSE _in_entry_window(ts_ms)

\* the notifier _maybe_post ends up calling (None when nothing resolves)
ResolvedNotifier(nc, n) == IF nc # None THEN nc ELSE _resolve_notify_callable(n)

\* How the notifier answers the keyword call, the positional call and the
\* two-argument call: "ok", "TE" (TypeError) or "EX" (any other exception).
SinkBehaviours ==
    { <<"ok", "ok", "ok">>, <<"EX", "ok", "ok">>, <<"TE", "ok", "ok">>,
      <<"TE", "EX", "ok">>, <<"TE", "TE", "EX">> }

\* faulty variant: the ladder goes on after any exception of the first call
NotifierCalls_RetryOnAny(notifier, sb) ==
    IF notifier = None THEN 0
    ELSE IF sb[1] = "ok" THEN 1
    ELSE IF sb[2] = "ok" THEN 2
    ELSE 3

\* number of notifier invocations made by the try / except ladder
NotifierCalls(notifier, sb) ==
    IF notifier = None THEN 0
    ELSE IF sb[1] # "TE" THEN 1
    ELSE IF sb[2] = "ok" THEN 2
    ELSE 3

NotifierDelivered(notifier, sb) ==
    /\ notifier # None
    /\ \/ sb[1] = "ok"
       \/ sb[1] = "TE" /\ sb[2] = "ok"
       \/ sb[1] = "TE" /\ sb[2] # "ok" /\ sb[3] = "ok"

\* faulty variant: a notifier that fails lets its exception leave _maybe_post
_maybe_post_Propagates(sig, nc, n, sb) ==
    IF ~PostAllowed(sig.when)
    THEN [sig |-> sig, posted |-> FALSE, calls |-> 0, delivered |-> FALSE,
          answers |-> <<>>, raised |-> FALSE]
    ELSE [sig |-> sig, posted |-> TRUE,
          calls |-> NotifierCalls(ResolvedNotifier(nc, n), sb),
          delivered |-> NotifierDelivered(ResolvedNotifier(nc, n), sb),
          answers |-> IF ResolvedNotifier(nc, n) = None THEN <<>> ELSE sb,
          raised |-> ~NotifierDelivered(ResolvedNotifier(nc, n), sb)]

\* _maybe_post never raises: the record says what reached the notifier
_maybe_post(sig, nc, n, sb) ==
    IF ~PostAllowed(sig.when)
    THEN [sig |-> sig, posted |-> FALSE, calls |-> 0, delivered |-> FALSE,
          answers |-> <<>>, raised |-> FALSE]
    ELSE [sig |-> sig, posted |-> TRUE,
          calls |-> NotifierCalls(ResolvedNotifier(nc, n), sb),
          delivered |-> NotifierDelivered(ResolvedNotifier(nc, n), sb),
          answers |-> IF ResolvedNotifier(nc, n) = None THEN <<>> ELSE sb,
          raised |-> FALSE]

\* self._notify_callable after _maybe_post (it re-resolves a missing callable)
CallableAfterPost(sig, nc, n) ==
    IF PostAllowed(sig.when) /\ nc = None THEN _resolve_notify_callable(n)
    ELSE nc

-----------------------------------------------------------------------------
(* Bounds and inputs of the checked instances *)

\* minute rolls explored per run
MaxBars == 4

\* minute rolls explored in the entry-window instance
MaxBarsWindow == 4

\* rolls explored in the bar-distance instance (beyond SB_RET_MAX_BARS)
MaxBarsFar == 23

\* same-minute observations folded into one in-progress bar
MaxTicks == 1

\* rows of a recorded run
MaxRows == 5

NoLevels ==
    [pdh |-> None, pdl |-> None, asia_high |-> None, asia_low |-> None,
     london_high |-> None, london_low |-> None]

DayLevels ==
    [NoLevels EXCEPT !.pdh = Some(10100), !.pdl = Some(10000),
                     !.london_high = Some(10400), !.london_low = Some(9800)]

\* the test harness levels: every high and every low counts as swept
AlwaysSwept ==
    [pdh |-> Some(0 - 1000000), pdl |-> Some(1000000),
     asia_high |-> Some(0 - 1000000), asia_low |-> Some(1000000),
     london_high |-> Some(0 - 1000000), london_low |-> Some(1000000)]

\* only the low side is swept
LowSwept ==
    [pdh |-> None, pdl |-> Some(1000000), asia_high |-> None,
     asia_low |-> None, london_high |-> None, london_low |-> None]

\* observation shapes: a high bar, a low bar, a small-bodied bar just under the
\* high bar, and an inverted bar (high < low)
BarH == [o |-> 10300, h |-> 10300, l |-> 10200, c |-> 10200]

BarL == [o |-> 9900, h |-> 10000, l |-> 9900, c |-> 10000]

BarM == [o |-> 10150, h |-> 10190, l |-> 10100, c |-> 10160]

BarI == [o |-> 10200, h |-> 10000, l |-> 10200, c |-> 10000]

\* a wide bar spanning the low and the high bar
BarW == [o |-> 10250, h |-> 10300, l |-> 9900, c |-> 10000]

\* 09:59:00, 10:00:00, 11:00:00.000, 11:00:00.001, 11:01:00 and 11:02:00
\* New York time on the first epoch day, and a timestamp before anything
\* datetime can represent
T0959 == 14 * 3600000 + 59 * 60000

T1000 == 15 * 3600000

T1100 == 16 * 3600000

T1100b == 16 * 3600000 + 1

T1101 == 16 * 3600000 + 60000

T1102 == 16 * 3600000 + 120000

BadTs == 0 - TS_LIMIT - 100000000

\* a timestamp after anything datetime can represent
BadTsLate == TS_LIMIT + 100000000

\* Scenario A of the specification: three minute bars, the returning bar and a
\* bar that closes it,
\* one observation per minute from 10:00
ScenarioA ==
    << Bar(T1000, 10000, 10100, 9900, 10000),
       Bar(T1000 + 60000, 9900, 10500, 9800, 10400),
       Bar(T1000 + 120000, 10300, 11000, 10200, 10900),
       Bar(T1000 + 180000, 10200, 10300, 10100, 10250),
       Bar(T1000 + 240000, 10250, 10260, 10240, 10250) >>

\* position in ScenarioA after one more observation (-1: the feed left it)
ScriptNext(s, b) ==
    IF s >= 0 /\ s < Len(ScenarioA) /\ b = ScenarioA[s + 1] THEN s + 1
    ELSE 0 - 1

\* what a capturing notifier of a recorded run holds after one more call of
\* on_bar: the row fed, and (when, side) of every post that reached it
Logged(lg, obs, fires) ==
    IF lg = None THEN None
    ELSE Some([rows |-> Append(Val(lg).rows, obs),
               sent |-> Val(lg).sent \cup
                        {<<fires[k].sig.when, fires[k].sig.side>> :
                             k \in {j \in DOMAIN fires : fires[j].calls > 0}}])

-----------------------------------------------------------------------------
(* run_live.main: the loop around SBEngine.on_bar *)

LocalDate(ts_ms) == (ts_ms + ET_OFFSET_MS) \div DAY_MS

LocalHour(ts_ms) == LocalTime(ts_ms) \div 3600000

LocalMinute(ts_ms) == (LocalTime(ts_ms) % 3600000) \div 60000

\* dt_et.hour > 10 or (dt_et.hour == 10 and dt_et.minute >= 0)
ArmedDue(ts_ms) ==
    LocalHour(ts_ms) > 10 \/ (LocalHour(ts_ms) = 10 /\ LocalMinute(ts_ms) >= 0)

\* dt_et.hour > 11 or (dt_et.hour == 11 and dt_et.minute >= 2)
SessionOver(ts_ms) ==
    LocalHour(ts_ms) > 11 \/ (LocalHour(ts_ms) = 11 /\ LocalMinute(ts_ms) >= 2)

\* faulty variant: the armed_sent latch is not consulted
ArmedStep_NoLatch(lv, ts_ms) ==
    IF ArmedDue(ts_ms)
    THEN [lv EXCEPT !.armed_sent = TRUE, !.armed = @ + 1]
    ELSE lv

\* the ARMED block: post_system_armed once, then armed_sent stays True
ArmedStep(lv, ts_ms) ==
    IF ~lv.armed_sent /\ ArmedDue(ts_ms)
    THEN [lv EXCEPT !.armed_sent = TRUE, !.armed = @ + 1]
    ELSE lv

\* the loop of run_live before it starts: nothing sent, no entry flag on disk
LiveStart ==
    [armed_sent |-> FALSE, armed |-> 0, no_sb |-> 0, done |-> FALSE,
     flag |-> {}, last |-> None, fed |-> FALSE]

\* the engine is driven directly, with no loop, file hand-off or bot around it
Direct ==
    live = None /\ proxy = None /\ csv = None /\ tail = None /\ sb_bot = None

\* under run_live a bar reaches on_bar only while the loop runs and the
\* end-of-session test fails for it
LivePasses(lv, ts_ms) ==
    IF lv = None THEN TRUE ELSE ~Val(lv).done /\ ~SessionOver(ts_ms)

\* under run_live the notifier is notify.post_entry: it takes the keyword
\* call and swallows what post_discord and the flag file raise
LiveSink(lv, sbL, sbS) ==
    IF lv = None THEN TRUE
    ELSE sbL = <<"ok", "ok", "ok">> /\ sbS = <<"ok", "ok", "ok">>

\* one loop iteration that reaches eng.on_bar: the ARMED block, then the
\* entry flags that notify.post_entry touched for the signals' dates
LiveAfter(lv, ts_ms, fires) ==
    IF lv = None THEN None
    ELSE Some([ArmedStep(Val(lv), ts_ms) EXCEPT
                  !.last = Some(ts_ms), !.fed = TRUE,
                  !.flag = @ \cup {LocalDate(fires[k].sig.when) :
                                k \in {j \in DOMAIN fires :
                                           fires[j].delivered}}])

-----------------------------------------------------------------------------
(* SBEngine.__init__ *)

NoCall ==
    [kind |-> "init", obs |-> Bar(0, 0, 0, 0, 0), raised |-> FALSE,
     created |-> {}, replaced |-> {},
     prior |-> PriorGaps(None, None), fires |-> <<>>]

InitWith(L, mode) ==
    /\ levels = L
    /\ FVG_MODE = mode
    /\ _current_minute_bucket = None
    /\ _i = 0
    /\ _A = None
    /\ _B = None
    /\ _C = None
    /\ _pre_hi = None
    /\ _pre_lo = None
    /\ _last_bull = None
    /\ _last_bear = None
    /\ _notify = "fn"
    /\ _notify_callable = _resolve_notify_callable("fn")
    /\ ticks = 0
    /\ script = 0
    /\ discord = None
    /\ out = NoCall

-----------------------------------------------------------------------------
(* SBEngine.on_bar *)

\* first observation ever: seed bucket and the three slots
OnBarSeed(ts_ms, o, h, l, c) ==
    /\ _current_minute_bucket = None
    /\ LivePasses(live, ts_ms)
    /\ live' = LiveAfter(live, ts_ms, <<>>)
    /\ _current_minute_bucket' = Some(minute_bucket(ts_ms))
    /\ _A' = Some(Bar(ts_ms, o, h, l, c))
    /\ _B' = Some(Bar(ts_ms, o, h, l, c))
    /\ _C' = Some(Bar(ts_ms, o, h, l, c))
    /\ IF Pre10Raises(ts_ms)
       THEN UNCHANGED <<_pre_hi, _pre_lo>>
       ELSE /\ _pre_hi' = _update_pre10_hi(_pre_hi, ts_ms, h)
            /\ _pre_lo' = _update_pre10_lo(_pre_lo, ts_ms, l)
    /\ ticks' = 0
    /\ script' = ScriptNext(script, Bar(ts_ms, o, h, l, c))
    /\ log' = Logged(log, Bar(ts_ms, o, h, l, c), <<>>)
    /\ out' = [kind |-> "seed", obs |-> Bar(ts_ms, o, h, l, c),
               raised |-> Pre10Raises(ts_ms), created |-> {},
               replaced |-> {},
               prior |-> PriorGaps(_last_bull, _last_bear), fires |-> <<>>]
    /\ UNCHANGED <<discord, levels, FVG_MODE, _i, _last_bull, _last_bear, _notify,
                   _notify_callable, handoff>>

\* faulty variant: the in-progress bar keeps the later of the two timestamps
FoldIntoA_LatestTs(A, ts_ms, o, h, l, c) ==
    IF A = None THEN Some(Bar(ts_ms, o, h, l, c))
    ELSE Some([Val(A) EXCEPT !.h = Max(Val(A).h, h), !.l = Min(Val(A).l, l),
                             !.c = c, !.ts = Max(Val(A).ts, ts_ms)])

\* faulty variant: the in-progress bar is overwritten by the observation
FoldIntoA_Overwrite(A, ts_ms, o, h, l, c) == Some(Bar(ts_ms, o, h, l, c))

\* the in-progress bar after a same-minute observation
FoldIntoA(A, ts_ms, o, h, l, c) ==
    IF A = None THEN Some(Bar(ts_ms, o, h, l, c))
    ELSE Some([Val(A) EXCEPT !.h = Max(Val(A).h, h), !.l = Min(Val(A).l, l),
                             !.c = c, !.ts = ts_ms])

\* faulty variant: a same-minute observation clears the pending gap
IntraminuteGap_Clear(last) == None

\* the same-minute branch returns before the evaluation: self._last_bull and
\* self._last_bear are what they were
IntraminuteGap(last) == last

\* same minute bucket: fold into A, feed the swing memory, no evaluation
OnBarIntraminute(ts_ms, o, h, l, c) ==
    /\ _current_minute_bucket # None
    /\ minute_bucket(ts_ms) = Val(_current_minute_bucket)
    /\ ticks < MaxTicks
    /\ LivePasses(live, ts_ms)
    /\ live' = LiveAfter(live, ts_ms, <<>>)
    /\ _A' = FoldIntoA(_A, ts_ms, o, h, l, c)
    /\ IF Pre10Raises(ts_ms)
       THEN UNCHANGED <<_pre_hi, _pre_lo>>
       ELSE /\ _pre_hi' = _update_pre10_hi(_pre_hi, ts_ms, h)
            /\ _pre_lo' = _update_pre10_lo(_pre_lo, ts_ms, l)
    /\ ticks' = ticks + 1
    /\ script' = ScriptNext(script, Bar(ts_ms, o, h, l, c))
    /\ log' = Logged(log, Bar(ts_ms, o, h, l, c), <<>>)
    /\ out' = [kind |-> "intra", obs |-> Bar(ts_ms, o, h, l, c),
               raised |-> Pre10Raises(ts_ms), created |-> {},
               replaced |-> {},
               prior |-> PriorGaps(_last_bull, _last_bear), fires |-> <<>>]
    /\ _last_bull' = IntraminuteGap(_last_bull)
    /\ _last_bear' = IntraminuteGap(_last_bear)
    /\ UNCHANGED <<discord, levels, FVG_MODE, _current_minute_bucket, _i,
                   _B, _C, _notify, _notify_callable, handoff>>

\* the strategy evaluation of a roll up to the return conditions: gap
\* build/refresh, sweeps, and which side's return qualifies
RollEval(i, A, B, C, pre_hi, pre_lo, bull, bear, L, mode) ==
    LET disp_ref == IF mode = "3C" THEN _displacement(B.o, B.h, B.l, B.c)
                    ELSE _displacement(C.o, C.h, C.l, C.c)
        disp_ok == DispAtLeast(disp_ref, SB_DISPLACEMENT_MIN)
        ref == GapRef(mode, A, B)
        bull1 == RefreshBull(bull, disp_ok, i, ref, C, disp_ref)
        bear1 == RefreshBear(bear, disp_ok, i, ref, C, disp_ref)
        swept_hi == _swept_high(L, pre_hi, C.h)
        swept_lo == _swept_low(L, pre_lo, C.l)
    IN [created |-> (IF bull1 # bull THEN {"bull"} ELSE {})
                    \cup (IF bear1 # bear THEN {"bear"} ELSE {}),
        replaced |-> (IF bull1 # bull /\ bull # None THEN {"bull"} ELSE {})
                     \cup (IF bear1 # bear /\ bear # None THEN {"bear"} ELSE {}),
        bull1 |-> bull1, bear1 |-> bear1,
        long |-> (bull1 # None
                  /\ BullReturnCond(i, Val(bull1), C, swept_lo, disp_ok)),
        short |-> (bear1 # None
                   /\ BearReturnCond(i, Val(bear1), C, swept_hi, disp_ok))]

\* the notifier answers a roll may meet: one per side that fires
SinkChoices(fires) == IF fires THEN SinkBehaviours ELSE {<<"ok", "ok", "ok">>}

\* The two return blocks in program order.  A post that raised would leave
\* on_bar at that statement: the gap's reset and the bear block are skipped.
RollReturns(ev, C, nc, n, sbL, sbS) ==
    LET pL == _maybe_post(LongSignal(Val(ev.bull1), C), nc, n, sbL)
        ncL == IF ev.long
               THEN CallableAfterPost(LongSignal(Val(ev.bull1), C), nc, n)
               ELSE nc
        stopL == ev.long /\ pL.raised
        doS == ev.short /\ ~stopL
        pS == _maybe_post(ShortSignal(Val(ev.bear1), C), ncL, n, sbS)
        ncS == IF doS
               THEN CallableAfterPost(ShortSignal(Val(ev.bear1), C), ncL, n)
               ELSE ncL
    IN [bull2 |-> AfterReturn(ev.bull1, ev.long /\ ~pL.raised),
        bear2 |-> AfterReturn(ev.bear1, doS /\ ~pS.raised),
        fires |-> (IF ev.long THEN <<pL>> ELSE <<>>)
                  \o (IF doS THEN <<pS>> ELSE <<>>),
        raised |-> (stopL \/ (doS /\ pS.raised)),
        nc |-> ncS]

\* faulty variant: the oldest slot is taken from the in-progress bar, so the
\* previous most recent completed bar is lost
RollWindow_NoShift(A, B, obs) ==
    LET prevA == IF A # None THEN Val(A) ELSE obs
    IN [C |-> prevA, B |-> prevA, A |-> obs]

\* the three slots after the roll: prevA / prevB are copies of the old A / B
RollWindow(A, B, obs) ==
    LET prevA == IF A # None THEN Val(A) ELSE obs
        prevB == IF B # None THEN Val(B) ELSE prevA
    IN [C |-> prevB, B |-> prevA, A |-> obs]

\* new minute bucket: roll A -> B -> C, then evaluate
OnBarRoll(ts_ms, o, h, l, c, cap) ==
    LET A2 == Bar(ts_ms, o, h, l, c)
        w == RollWindow(_A, _B, A2)
        prevA == w.B
        prevB == w.C
        ph == _update_pre10_hi(_pre_hi, ts_ms, h)
        pl == _update_pre10_lo(_pre_lo, ts_ms, l)
        ev == RollEval(_i + 1, A2, prevA, prevB, ph, pl, _last_bull,
                       _last_bear, levels, FVG_MODE)
    IN /\ _current_minute_bucket # None
       /\ minute_bucket(ts_ms) # Val(_current_minute_bucket)
       /\ _i < cap
       /\ LivePasses(live, ts_ms)
       /\ _current_minute_bucket' = Some(minute_bucket(ts_ms))
       /\ _i' = _i + 1
       /\ _C' = Some(w.C)
       /\ _B' = Some(w.B)
       /\ _A' = Some(w.A)
       /\ ticks' = 0
       /\ script' = ScriptNext(script, A2)
       /\ UNCHANGED <<discord, levels, FVG_MODE, _notify, handoff>>
       /\ IF Pre10Raises(ts_ms)
          THEN /\ log' = Logged(log, A2, <<>>)
               /\ live' = LiveAfter(live, ts_ms, <<>>)
               /\ out' = [kind |-> "roll", obs |-> A2, raised |-> TRUE,
                          created |-> {}, replaced |-> {},
                          prior |-> PriorGaps(_last_bull, _last_bear),
                          fires |-> <<>>]
               /\ UNCHANGED <<_pre_hi, _pre_lo, _last_bull, _last_bear,
                              _notify_callable>>
          ELSE /\ _pre_hi' = ph
               /\ _pre_lo' = pl
               /\ \E sbL \in SinkChoices(ev.long), sbS \in SinkChoices(ev.short) :
                      LET r == RollReturns(ev, prevB, _notify_callable,
                                           _notify, sbL, sbS)
                      IN /\ LiveSink(live, sbL, sbS)
                         /\ live' = LiveAfter(live, ts_ms, r.fires)
                         /\ _last_bull' = r.bull2
                         /\ _last_bear' = r.bear2
                         /\ _notify_callable' = r.nc
                         /\ log' = Logged(log, A2, r.fires)
                         /\ out' = [kind |-> "roll", obs |-> A2,
                                    raised |-> r.raised,
                                    created |-> ev.created,
                                    replaced |-> ev.replaced,
                                    prior |-> PriorGaps(_last_bull, _last_bear),
                                    fires |-> r.fires]

\* the test harnesses swap the notifier: eng._notify = x, then
\* eng._resolve_notify_callable()
ReplaceNotify(n) ==
    /\ n # _notify
    /\ _notify' = n
    /\ _notify_callable' = _resolve_notify_callable(n)
    /\ UNCHANGED <<discord, levels, FVG_MODE, _current_minute_bucket, _i, _A, _B, _C,
                   _pre_hi, _pre_lo, _last_bull, _last_bear, ticks, script,
                   log, out, live, handoff>>

-----------------------------------------------------------------------------
(* probes/alert_equivalence_check.py *)

\* Python truthiness of a level or swing value: None and 0 are false
Truthy(x) == x # None /\ Val(x) # 0

RECURSIVE ProbePre(_, _, _, _)
\* pre_hi / pre_lo of the probe: one pass over all rows before the main loop;
\* side is "hi" or "lo", k the next row, pre the value so far
ProbePre(rows, k, side, pre) ==
    IF k > Len(rows) THEN pre
    ELSE LET r == rows[k]
             v == IF side = "hi" THEN r.h ELSE r.l
             better == \/ pre = None
                       \/ (side = "hi" /\ v > Val(pre))
                       \/ (side = "lo" /\ v < Val(pre))
         IN ProbePre(rows, k + 1, side,
                     IF LocalTime(r.ts) < PRE10_CUTOFF /\ better
                     THEN Some(v) ELSE pre)

\* one iteration of the probe's loop at Python index i (rows are 1-based
\* here, so rows[i] of the source is rows[i + 1]); st holds last_bull,
\* last_bear and out
ProbeStep(rows, i, L, mode, pre_hi, pre_lo, st) ==
    LET A == IF i >= 2 THEN Some(rows[i - 1]) ELSE None
        B == rows[i]
        C == rows[i + 1]
        disp_ok == IF mode = "3C"
                   THEN DispAtLeast(_displacement(B.o, B.h, B.l, B.c),
                                    SB_DISPLACEMENT_MIN)
                   ELSE DispAtLeast(_displacement(C.o, C.h, C.l, C.c),
                                    SB_DISPLACEMENT_MIN)
        swept_hi == \/ (Truthy(L.pdh) /\ C.h > Val(L.pdh))
                    \/ (Truthy(L.asia_high) /\ C.h > Val(L.asia_high))
                    \/ (Truthy(L.london_high) /\ C.h > Val(L.london_high))
                    \/ (INTERNAL_SWEEP_PRE10 /\ Truthy(pre_hi)
                        /\ C.h > Val(pre_hi))
        swept_lo == \/ (Truthy(L.pdl) /\ C.l < Val(L.pdl))
                    \/ (Truthy(L.asia_low) /\ C.l < Val(L.asia_low))
                    \/ (Truthy(L.london_low) /\ C.l < Val(L.london_low))
                    \/ (INTERNAL_SWEEP_PRE10 /\ Truthy(pre_lo)
                        /\ C.l < Val(pre_lo))
        ref == IF mode = "3C" THEN A ELSE Some(B)
        build == disp_ok /\ ref # None
        bull1 == IF build /\ C.l - Val(ref).h >= SB_FVG_MIN
                 THEN Some([i |-> i, gap_top |-> C.l, gap_bot |-> Val(ref).h])
                 ELSE st.last_bull
        bear1 == IF build /\ Val(ref).l - C.h >= SB_FVG_MIN
                 THEN Some([i |-> i, gap_top |-> Val(ref).l, gap_bot |-> C.h])
                 ELSE st.last_bear
        long == /\ swept_lo
                /\ bull1 # None
                /\ i - Val(bull1).i <= SB_RET_MAX_BARS
                /\ C.l <= Val(bull1).gap_top
        short == /\ swept_hi
                 /\ bear1 # None
                 /\ i - Val(bear1).i <= SB_RET_MAX_BARS
                 /\ C.h >= Val(bear1).gap_bot
    IN [last_bull |-> IF long THEN None ELSE bull1,
        last_bear |-> IF short THEN None ELSE bear1,
        out |-> st.out
                \cup (IF long /\ _in_entry_window(C.ts)
                      THEN {<<C.ts, "LONG">>} ELSE {})
                \cup (IF short /\ _in_entry_window(C.ts)
                      THEN {<<C.ts, "SHORT">>} ELSE {})]

RECURSIVE ProbeLoop(_, _, _, _, _, _, _)
\* for i in range(1, len(rows))
ProbeLoop(rows, i, L, mode, pre_hi, pre_lo, st) ==
    IF i >= Len(rows) THEN st
    ELSE ProbeLoop(rows, i + 1, L, mode, pre_hi, pre_lo,
                   ProbeStep(rows, i, L, mode, pre_hi, pre_lo, st))

\* the (timestamp, side) set main() builds from explain_like_candidates
explain_like_candidates(rows, L, mode) ==
    ProbeLoop(rows, 1, L, mode,
              IF INTERNAL_SWEEP_PRE10 THEN ProbePre(rows, 1, "hi", None)
              ELSE None,
              IF INTERNAL_SWEEP_PRE10 THEN ProbePre(rows, 1, "lo", None)
              ELSE None,
              [last_bull |-> None, last_bear |-> None, out |-> {}]).out

\* the (timestamp, side) set main() builds from engine_candidates: what the
\* capturing notifier kept, which filters by the entry window once more
engine_candidates(lg) == {x \in lg.sent : _in_entry_window(x[1])}

-----------------------------------------------------------------------------
(* Specifications *)

Swap == \E n \in Notifiers : ReplaceNotify(n)

\* a feed in time order: the timestamps of T not before the last observation
InOrder(T) == IF out.kind = "init" THEN T ELSE {t \in T : t >= out.obs.ts}

\* a feed of consecutive minutes from 10:00: the next observation falls 30 s
\* into the current minute or at the start of the next one
Consecutive ==
    IF _current_minute_bucket = None THEN {T1000}
    ELSE {Val(_current_minute_bucket) * 60000 + 30000,
          (Val(_current_minute_bucket) + 1) * 60000}

\* the engine with day levels, in either gap mode, on consecutive in-window
\* minutes
Init == log = None /\ Direct /\ \E mode \in {"3C", "2C"} : InitWith(DayLevels, mode)

Next ==
    \/ \E t \in Consecutive, b \in {BarH, BarL} :
           OnBarSeed(t, b.o, b.h, b.l, b.c)
    \/ \E t \in Consecutive, b \in {BarH, BarL, BarW} :
           OnBarIntraminute(t, b.o, b.h, b.l, b.c)
    \/ \E t \in Consecutive, b \in {BarH, BarL} :
           OnBarRoll(t, b.o, b.h, b.l, b.c, MaxBars)
    \/ Swap

Spec == Init /\ [][Next]_vars

\* a feed in time order with timestamps before, at the edges of and after the
\* entry window, between two timestamps that cannot be converted
WindowTimes ==
    {BadTs, T0959, T1000, T1100, T1100b, T1101, T1102, BadTsLate}

NextWindow ==
    \/ \E t \in InOrder(WindowTimes), b \in {BarH, BarL} :
           OnBarSeed(t, b.o, b.h, b.l, b.c)
    \/ \E t \in InOrder(WindowTimes), b \in {BarL} :
           OnBarIntraminute(t, b.o, b.h, b.l, b.c)
    \/ \E t \in InOrder(WindowTimes), b \in {BarH, BarL} :
           OnBarRoll(t, b.o, b.h, b.l, b.c, MaxBarsWindow)

SpecWindow == Init /\ [][NextWindow]_vars

\* a long feed: free observations, a quiet stretch of small-bodied bars, then
\* free observations again, so that a pending gap outlives SB_RET_MAX_BARS
FarBars(i) ==
    IF 1 <= i /\ i + 3 <= SB_RET_MAX_BARS THEN {BarM}
    ELSE {BarH, BarL, BarM}

NextFar ==
    \/ \E t \in Consecutive, b \in FarBars(_i) :
           OnBarSeed(t, b.o, b.h, b.l, b.c)
    \/ \E t \in Consecutive, b \in FarBars(_i) :
           OnBarRoll(t, b.o, b.h, b.l, b.c, MaxBarsFar)

SpecFar == Init /\ [][NextFar]_vars

\* the Scenario A observations, fed in any order, with the low side or every
\* side swept
InitScenario ==
    log = None /\ Direct /\ \E L \in {LowSwept, AlwaysSwept} : InitWith(L, "3C")

ScenarioObs(k) ==
    \/ OnBarSeed(ScenarioA[k].ts, ScenarioA[k].o, ScenarioA[k].h,
                 ScenarioA[k].l, ScenarioA[k].c)
    \/ OnBarIntraminute(ScenarioA[k].ts, ScenarioA[k].o, ScenarioA[k].h,
                        ScenarioA[k].l, ScenarioA[k].c)
    \/ OnBarRoll(ScenarioA[k].ts, ScenarioA[k].o, ScenarioA[k].h,
                 ScenarioA[k].l, ScenarioA[k].c, MaxBars)

NextScenario ==
    \/ \E k \in DOMAIN ScenarioA : ScenarioObs(k)
    \/ Swap

SpecScenario == InitScenario /\ [][NextScenario]_vars

\* a recorded run as probes/alert_equivalence_check.py makes it: one row per
\* minute from 09:58, the same rows and levels given to the engine and to the
\* reference procedure
T0958 == T0959 - 60000

NextRowTime ==
    IF _current_minute_bucket = None THEN T0958
    ELSE (Val(_current_minute_bucket) + 1) * 60000

InitProbe ==
    /\ log = Some([rows |-> <<>>, sent |-> {}])
    /\ Direct
    /\ \E L \in {DayLevels, AlwaysSwept}, mode \in {"3C", "2C"} :
           InitWith(L, mode)

NextProbe ==
    \/ \E b \in {BarH, BarL, BarM} :
           OnBarSeed(NextRowTime, b.o, b.h, b.l, b.c)
    \/ \E b \in {BarH, BarL, BarM} :
           OnBarRoll(NextRowTime, b.o, b.h, b.l, b.c, MaxRows - 1)

SpecProbe == InitProbe /\ [][NextProbe]_vars

\* a feed that contains inverted bars (high < low)
NextMalformed ==
    \/ \E t \in Consecutive, b \in {BarH, BarL, BarI} :
           OnBarSeed(t, b.o, b.h, b.l, b.c)
    \/ \E t \in Consecutive, b \in {BarI} :
           OnBarIntraminute(t, b.o, b.h, b.l, b.c)
    \/ \E t \in Consecutive, b \in {BarH, BarL, BarI} :
           OnBarRoll(t, b.o, b.h, b.l, b.c, MaxBars)
    \/ Swap

SpecMalformed == Init /\ [][NextMalformed]_vars

-----------------------------------------------------------------------------
(* Reading the last call *)

\* the posts of the last call for one side
FiresOf(o, side) == {k \in DOMAIN o.fires : o.fires[k].sig.side = side}

\* the notifier was invoked for this post
Forwarded(p) == p.calls > 0

\* the last call was an evaluation that ran to its end
Evaluated == out.kind = "roll" /\ ~Pre10Raises(out.obs.ts)

\* the displacement test of the evaluation that produced the current window
WindowDispOk ==
    LET ref == IF FVG_MODE = "3C" THEN Val(_B) ELSE Val(_C)
    IN DispAtLeast(_displacement(ref.o, ref.h, ref.l, ref.c),
                   SB_DISPLACEMENT_MIN)

\* a feed that is not in time order: every observation may fall before or
\* after the previous one, in the current, an earlier or a later minute
MaxBarsUnordered == 2

UnorderedTimes ==
    {T0959, T1000, T1000 + 10000, T1000 + 30000, T1000 + 60000}

NextUnordered ==
    \/ \E t \in UnorderedTimes, b \in {BarH, BarL} :
           OnBarSeed(t, b.o, b.h, b.l, b.c)
    \/ \E t \in UnorderedTimes, b \in {BarH, BarL} :
           OnBarIntraminute(t, b.o, b.h, b.l, b.c)
    \/ \E t \in UnorderedTimes, b \in {BarH, BarL} :
           OnBarRoll(t, b.o, b.h, b.l, b.c, MaxBarsUnordered)

SpecUnordered == Init /\ [][NextUnordered]_vars

\* levels of a day that lacks sessions: none at all, or the overnight session
\* only; the feed starts a minute before the swing-memory cutoff or at it
OvernightOnly ==
    [NoLevels EXCEPT !.asia_high = Some(10100), !.asia_low = Some(10000)]

InitLevels ==
    /\ log = None
    /\ Direct
    /\ \E L \in {NoLevels, OvernightOnly}, mode \in {"3C", "2C"} :
           InitWith(L, mode)

ConsecutiveFrom(T) ==
    IF _current_minute_bucket = None THEN T
    ELSE {Val(_current_minute_bucket) * 60000 + 30000,
          (Val(_current_minute_bucket) + 1) * 60000}

NextLevels ==
    \/ \E t \in ConsecutiveFrom({T0959, T1000}), b \in {BarH, BarL} :
           OnBarSeed(t, b.o, b.h, b.l, b.c)
    \/ \E t \in ConsecutiveFrom({T0959, T1000}), b \in {BarH, BarL} :
           OnBarIntraminute(t, b.o, b.h, b.l, b.c)
    \/ \E t \in ConsecutiveFrom({T0959, T1000}), b \in {BarH, BarL} :
           OnBarRoll(t, b.o, b.h, b.l, b.c, MaxBars)

SpecLevels == InitLevels /\ [][NextLevels]_vars

\* a feed in time order that starts three minutes before the swing-memory
\* cutoff, with observations inside the minutes, with no level or the day's
\* levels; every observation so far precedes the cutoff iff the last one does
MaxBarsSwing == 3

T0957 == T0958 - 60000

InitSwing ==
    /\ log = None
    /\ Direct
    /\ \E L \in {NoLevels, DayLevels}, mode \in {"3C", "2C"} :
           InitWith(L, mode)

NextSwing ==
    \/ \E t \in ConsecutiveFrom({T0957}), b \in {BarH, BarL} :
           OnBarSeed(t, b.o, b.h, b.l, b.c)
    \/ \E t \in ConsecutiveFrom({T0957}), b \in {BarH, BarL, BarW} :
           OnBarIntraminute(t, b.o, b.h, b.l, b.c)
    \/ \E t \in ConsecutiveFrom({T0957}), b \in {BarH, BarL} :
           OnBarRoll(t, b.o, b.h, b.l, b.c, MaxBarsSwing)

SpecSwing == InitSwing /\ [][NextSwing]_vars

\* the loop's last iteration: the ARMED block, then NO VALID SB unless the
\* entry flag of the bar's date exists, then break; eng.on_bar is not reached
LiveEnd(ts_ms) ==
    /\ live # None
    /\ ~Val(live).done
    /\ SessionOver(ts_ms)
    /\ live' = Some([ArmedStep(Val(live), ts_ms) EXCEPT
                        !.last = Some(ts_ms), !.fed = FALSE, !.done = TRUE,
                        !.no_sb = IF LocalDate(ts_ms) \in Val(live).flag
                                  THEN @ ELSE @ + 1])
    /\ UNCHANGED <<levels, FVG_MODE, engine, _notify, _notify_callable,
                   ticks, script, log, discord, out, handoff>>

\* run_live over a feed in time order: the minutes around 10:00, the minutes
\* around the end of the session, and 11:02 of the next day
MaxBarsLive == 3

LiveTimes ==
    {T0959, T1000, T1000 + 60000, T1000 + 120000, T1101, T1102,
     T1102 + DAY_MS}

InitLive ==
    /\ log = None
    /\ live = Some(LiveStart)
    /\ proxy = None /\ csv = None /\ tail = None /\ sb_bot = None
    /\ \E L \in {DayLevels, AlwaysSwept}, mode \in {"3C", "2C"} :
           InitWith(L, mode)

NextLive ==
    \/ \E t \in InOrder(LiveTimes), b \in {BarH, BarL} :
           OnBarSeed(t, b.o, b.h, b.l, b.c)
    \/ \E t \in InOrder(LiveTimes), b \in {BarH, BarL} :
           OnBarIntraminute(t, b.o, b.h, b.l, b.c)
    \/ \E t \in InOrder(LiveTimes), b \in {BarH, BarL} :
           OnBarRoll(t, b.o, b.h, b.l, b.c, MaxBarsLive)
    \/ \E t \in InOrder(LiveTimes) : LiveEnd(t)

SpecLive == InitLive /\ [][NextLive]_vars

-----------------------------------------------------------------------------
(* C1 *)

\* C1: a signal of a side fires only in a minute-roll evaluation, for the gap
\* that was pending before the call or was created by it; it fires once in
\* that call and leaves no pending gap of that side, so the same gap instance
\* cannot fire again and the next signal of that side needs a new gap.
C1_IdempotentConsumption ==
    [][ /\ (_i' = _i /\ out' # out) => out'.fires = <<>>
        /\ (_i' # _i) =>
             /\ Cardinality(FiresOf(out', "LONG")) <= 1
             /\ Cardinality(FiresOf(out', "SHORT")) <= 1
             /\ \A k \in FiresOf(out', "LONG") :
                    /\ _last_bull' = None
                    /\ \/ ("bull" \in out'.created
                           /\ out'.fires[k].sig.gap_i = _i')
                       \/ (_last_bull # None
                           /\ out'.fires[k].sig.gap_i = Val(_last_bull).i)
             /\ \A k \in FiresOf(out', "SHORT") :
                    /\ _last_bear' = None
                    /\ \/ ("bear" \in out'.created
                           /\ out'.fires[k].sig.gap_i = _i')
                       \/ (_last_bear # None
                           /\ out'.fires[k].sig.gap_i = Val(_last_bear).i)
      ]_vars

\* a gap that was pending from an earlier evaluation has just fired its signal
C1_Witness ==
    /\ Evaluated
    /\ \E k \in FiresOf(out, "LONG") :
           /\ out.fires[k].sig.gap_i < _i
           /\ out.prior.bull = out.fires[k].sig.gap_i
    /\ _last_bull = None

-----------------------------------------------------------------------------
(* C2 *)

-----------------------------------------------------------------------------
(* C3 *)

\* C3: in an evaluation where a pending gap is more than SB_RET_MAX_BARS bars
\* old and is not replaced, that gap fires no signal and stays pending.
C3_BarDistanceBound ==
    [][ (_i' # _i) =>
          /\ (/\ _last_bull # None
              /\ _i' - Val(_last_bull).i > SB_RET_MAX_BARS
              /\ "bull" \notin out'.created)
                 => /\ FiresOf(out', "LONG") = {}
                    /\ _last_bull' = _last_bull
          /\ (/\ _last_bear # None
              /\ _i' - Val(_last_bear).i > SB_RET_MAX_BARS
              /\ "bear" \notin out'.created)
                 => /\ FiresOf(out', "SHORT") = {}
                    /\ _last_bear' = _last_bear
          /\ \A k \in DOMAIN out'.fires :
                 _i' - out'.fires[k].sig.gap_i <= SB_RET_MAX_BARS
      ]_vars

\* a bullish gap older than SB_RET_MAX_BARS met price, sweep and displacement
\* in the last evaluation, fired nothing and is still pending
C3_Witness ==
    /\ Evaluated
    /\ _last_bull # None
    /\ _i - Val(_last_bull).i > SB_RET_MAX_BARS
    /\ Val(_C).l <= Val(_last_bull).gap_top
    /\ _swept_low(levels, _pre_lo, Val(_C).l)
    /\ WindowDispOk
    /\ out.fires = <<>>

-----------------------------------------------------------------------------
(* C4 *)

\* C4 as stated: replaying Scenario A on a fresh engine with only the low side
\* swept, no short signal fires, and the fourth bar (its observation, or the
\* observation that closes it) fires exactly one long signal, with entry
\* 102.00.
C4_AsStated ==
    [][ levels = LowSwept =>
          /\ script' \in 1..5 => FiresOf(out', "SHORT") = {}
          /\ (script = 4 /\ script' = 5) =>
                 /\ Cardinality(FiresOf(out, "LONG"))
                        + Cardinality(FiresOf(out', "LONG")) = 1
                 /\ \A k \in FiresOf(out, "LONG") :
                        out.fires[k].sig.entry = 10200
                 /\ \A k \in FiresOf(out', "LONG") :
                        out'.fires[k].sig.entry = 10200
      ]_vars

-----------------------------------------------------------------------------
(* C5 *)

\* C5 as stated, with the oldest window bar in slot _C and the newest in slot
\* _A: a displacement-qualifying 3C evaluation records a bullish gap exactly
\* when newest.low - oldest.high >= SB_FVG_MIN and a bearish gap exactly when
\* oldest.low - newest.high >= SB_FVG_MIN.
C5_AsStated ==
    (Evaluated /\ FVG_MODE = "3C" /\ WindowDispOk) =>
        /\ ("bull" \in out.created) <=> (Val(_A).l - Val(_C).h >= SB_FVG_MIN)
        /\ ("bear" \in out.created) <=> (Val(_C).l - Val(_A).h >= SB_FVG_MIN)

-----------------------------------------------------------------------------
(* C6 *)

\* C6: each side holds at most one pending gap, and when an evaluation meets
\* the bullish (bearish) gap condition the slot afterwards holds the gap of
\* this evaluation (its index and bounds) or nothing, never an older gap.
C6_Replacement ==
    [][ (_i' # _i /\ ~Pre10Raises(out'.obs.ts) /\ WindowDispOk') =>
          /\ Len(_last_bull') <= 1
          /\ Len(_last_bear') <= 1
          /\ BullGapCond(GapRef(FVG_MODE, Val(_A'), Val(_B')), Val(_C'))
                => \/ _last_bull' = None
                   \/ /\ Val(_last_bull').i = _i'
                      /\ Val(_last_bull').gap_top = Val(_C').l
                      /\ Val(_last_bull').gap_bot =
                             GapRef(FVG_MODE, Val(_A'), Val(_B')).h
          /\ BearGapCond(GapRef(FVG_MODE, Val(_A'), Val(_B')), Val(_C'))
                => \/ _last_bear' = None
                   \/ /\ Val(_last_bear').i = _i'
                      /\ Val(_last_bear').gap_bot = Val(_C').h
                      /\ Val(_last_bear').gap_top =
                             GapRef(FVG_MODE, Val(_A'), Val(_B')).l
      ]_vars

\* two consecutive evaluations each created a bullish gap: the gap of the
\* previous index was pending and the slot now holds the gap of this index
C6_Witness ==
    /\ Evaluated
    /\ "bull" \in out.replaced
    /\ _i >= 2
    /\ out.prior.bull = _i - 1
    /\ _last_bull # None
    /\ Val(_last_bull).i = _i

-----------------------------------------------------------------------------
(* C7 *)

\* C7 as stated: a call with an inverted observation (high < low) leaves the
\* engine state as it was and reports the rejection to the caller.
C7_AsStated ==
    [][ (out' # out /\ out'.obs.h < out'.obs.l) =>
            (engine' = engine /\ out'.raised) ]_vars

-----------------------------------------------------------------------------
(* C8 *)

\* C8: whatever the notifier does (raises, rejects every call style, or is
\* None), the evaluation returns normally, the gap that fired is consumed,
\* and the evaluation ran to its end: no gap left pending still meets its
\* return condition, so later observations start from the same engine state
\* as after a successful post.
C8_SinkFailureContained ==
    [][ (_i' # _i) =>
          /\ ~out'.raised
          /\ FiresOf(out', "LONG") # {} => _last_bull' = None
          /\ FiresOf(out', "SHORT") # {} => _last_bear' = None
          /\ _last_bull' # None =>
                 ~BullReturnCond(_i', Val(_last_bull'), Val(_C'),
                                 _swept_low(levels, _pre_lo', Val(_C').l),
                                 WindowDispOk')
          /\ _last_bear' # None =>
                 ~BearReturnCond(_i', Val(_last_bear'), Val(_C'),
                                 _swept_high(levels, _pre_hi', Val(_C').h),
                                 WindowDispOk')
      ]_vars

\* a post met a failing or absent notifier: the call returned normally and
\* the gap is consumed
C8_Witness ==
    /\ Evaluated
    /\ ~out.raised
    /\ \E k \in FiresOf(out, "LONG") :
           out.fires[k].posted /\ ~out.fires[k].delivered
    /\ _last_bull = None

-----------------------------------------------------------------------------
(* C9 *)

\* C9 as stated: a same-minute observation whose range contains the top of the
\* pending bullish gap, with the low sweep holding for its low and the gap
\* within SB_RET_MAX_BARS, fires the long signal in that call.
C9_AsStated ==
    [][ (/\ ticks' = ticks + 1
         /\ _last_bull # None
         /\ out'.obs.l <= Val(_last_bull).gap_top
         /\ Val(_last_bull).gap_top <= out'.obs.h
         /\ _swept_low(levels, _pre_lo', out'.obs.l)
         /\ _i - Val(_last_bull).i <= SB_RET_MAX_BARS)
            => FiresOf(out', "LONG") # {} ]_vars

-----------------------------------------------------------------------------
(* C10 *)

\* C10 as stated: a long signal fires only when the evaluation bar's range
\* contains the gap top, a short signal only when it contains the gap bottom.
C10_AsStated ==
    Evaluated =>
        \A k \in DOMAIN out.fires :
            /\ Val(_C).l <= out.fires[k].sig.entry
            /\ out.fires[k].sig.entry <= Val(_C).h

-----------------------------------------------------------------------------
(* C11 *)

\* C11: a long signal fires only in an evaluation whose sweep test, computed
\* in that call from the levels and the swing memory as the call leaves it,
\* holds for the low of the bar the return check reads (_C); a short signal
\* only when it holds for that bar's high.
C11_SweepPrecondition ==
    [][ (_i' # _i) =>
          /\ FiresOf(out', "LONG") # {}
                => _swept_low(levels, _pre_lo', Val(_C').l)
          /\ FiresOf(out', "SHORT") # {}
                => _swept_high(levels, _pre_hi', Val(_C').h)
      ]_vars

\* a bullish gap pending since an earlier evaluation fired in this one, whose
\* bar sweeps a low
C11_Witness ==
    /\ Evaluated
    /\ \E k \in FiresOf(out, "LONG") :
           /\ out.prior.bull = out.fires[k].sig.gap_i
           /\ out.fires[k].sig.gap_i < _i
    /\ _swept_low(levels, _pre_lo, Val(_C).l)

-----------------------------------------------------------------------------
(* C12 *)

\* the gap a side's signal of this call was built from: the one this
\* evaluation created, else the one pending before the call
FiredBull == IF "bull" \in out'.created THEN Val(RefreshBull(None, TRUE, _i',
                 GapRef(FVG_MODE, Val(_A'), Val(_B')), Val(_C'),
                 _displacement(0, 0, 0, 0)))
             ELSE Val(_last_bull)

FiredBear == IF "bear" \in out'.created THEN Val(RefreshBear(None, TRUE, _i',
                 GapRef(FVG_MODE, Val(_A'), Val(_B')), Val(_C'),
                 _displacement(0, 0, 0, 0)))
             ELSE Val(_last_bear)

\* C12: a fired long signal has entry = gap_top, stop = the gap's source-candle
\* low - SB_SL_BUFFER and target = entry + SB_TP_RR * (entry - stop); a fired
\* short signal has entry = gap_bot, stop = source-candle high + SB_SL_BUFFER
\* and target = entry - SB_TP_RR * (stop - entry).
C12_SignalPrices ==
    [][ (_i' # _i) =>
          /\ \A k \in FiresOf(out', "LONG") :
                 LET s == out'.fires[k].sig
                 IN /\ s.entry = FiredBull.gap_top
                    /\ s.sl = FiredBull.c1_low - SB_SL_BUFFER
                    /\ s.tp = s.entry + SB_TP_RR * (s.entry - s.sl)
          /\ \A k \in FiresOf(out', "SHORT") :
                 LET s == out'.fires[k].sig
                 IN /\ s.entry = FiredBear.gap_bot
                    /\ s.sl = FiredBear.c1_high + SB_SL_BUFFER
                    /\ s.tp = s.entry - SB_TP_RR * (s.sl - s.entry)
      ]_vars

\* a long signal was forwarded whose gap's source candle has a low below the
\* gap's bottom, so the stop is not gap_bot - SB_SL_BUFFER
C12_Witness ==
    /\ Evaluated
    /\ \E k \in FiresOf(out, "LONG") :
           /\ out.fires[k].delivered
           /\ out.fires[k].sig.entry = 10200
           /\ out.fires[k].sig.sl = 9900 - SB_SL_BUFFER
           /\ out.fires[k].sig.tp = 10200 + SB_TP_RR * (10200 - 9400)

-----------------------------------------------------------------------------
(* C13 *)

\* C13: over every call the recorded swing high never decreases and the
\* recorded swing low never increases (once set they stay set), and a call
\* whose observation has a local time at or after the cutoff (10:00) leaves
\* both unchanged.
C13_SwingMemoryMonotone ==
    [][ /\ _pre_hi # None =>
               (_pre_hi' # None /\ Val(_pre_hi') >= Val(_pre_hi))
        /\ _pre_lo # None =>
               (_pre_lo' # None /\ Val(_pre_lo') <= Val(_pre_lo))
        /\ (/\ ~FromTimestampRaises(out'.obs.ts)
            /\ LocalTime(out'.obs.ts) >= PRE10_CUTOFF)
               => (_pre_hi' = _pre_hi /\ _pre_lo' = _pre_lo)
      ]_vars

\* the memory was filled before 10:00 and the last call, at or after 10:00,
\* brought a low below the recorded swing low, which stayed as it was
C13_Witness ==
    /\ out.kind \in {"roll", "intra"}
    /\ ~FromTimestampRaises(out.obs.ts)
    /\ LocalTime(out.obs.ts) >= PRE10_CUTOFF
    /\ _pre_lo # None
    /\ _pre_hi # None
    /\ out.obs.l < Val(_pre_lo)

-----------------------------------------------------------------------------
(* C14 *)

\* C14 as stated: the first observation of a new engine only seeds the state
\* (bucket set, the three slots copies of the observation, index 0, no gap,
\* no signal) and the call does not fail.
C14_AsStated ==
    out.kind = "seed" =>
        /\ ~out.raised
        /\ _current_minute_bucket = Some(minute_bucket(out.obs.ts))
        /\ _A = Some(out.obs)
        /\ _B = Some(out.obs)
        /\ _C = Some(out.obs)
        /\ _i = 0
        /\ _last_bull = None
        /\ _last_bear = None
        /\ out.fires = <<>>

-----------------------------------------------------------------------------
(* C15 *)

\* C15 as stated: a call that ends with an error leaves bucket, bar index,
\* window bars, swing memory and pending gaps as they were before the call.
C15_AsStated ==
    [][ (out' # out /\ out'.raised) => engine' = engine ]_vars

-----------------------------------------------------------------------------
(* C16 *)

\* C16 as stated: at a rollover the bar that has just completed is the
\* in-progress bar of the state before the call (_A).  If a bullish gap is
\* pending and not replaced by this evaluation, its gap_top lies within that
\* bar's [low, high], the gap is within SB_RET_MAX_BARS and the low sweep holds
\* for that bar's low, the rollover fires a LONG with entry = gap_top; and
\* symmetrically a SHORT with entry = gap_bot for a pending bearish gap.
C16_AsStated ==
    [][ (_i' # _i /\ ~out'.raised) =>
          /\ (/\ _last_bull # None
              /\ "bull" \notin out'.created
              /\ Val(_A).l <= Val(_last_bull).gap_top
              /\ Val(_last_bull).gap_top <= Val(_A).h
              /\ _i' - Val(_last_bull).i <= SB_RET_MAX_BARS
              /\ _swept_low(levels, _pre_lo', Val(_A).l))
                 => \E k \in FiresOf(out', "LONG") :
                        out'.fires[k].sig.entry = Val(_last_bull).gap_top
          /\ (/\ _last_bear # None
              /\ "bear" \notin out'.created
              /\ Val(_A).l <= Val(_last_bear).gap_bot
              /\ Val(_last_bear).gap_bot <= Val(_A).h
              /\ _i' - Val(_last_bear).i <= SB_RET_MAX_BARS
              /\ _swept_high(levels, _pre_hi', Val(_A).h))
                 => \E k \in FiresOf(out', "SHORT") :
                        out'.fires[k].sig.entry = Val(_last_bear).gap_bot
      ]_vars

-----------------------------------------------------------------------------
(* C17 *)

\* C17 as stated: for every recorded run of one row per minute, the set of
\* (timestamp, side) signals the engine forwarded within the entry window
\* equals the set explain_like_candidates computes from the same rows and
\* levels.
C17_AsStated ==
    log # None =>
        engine_candidates(Val(log)) =
            explain_like_candidates(Val(log).rows, levels, FVG_MODE)

-----------------------------------------------------------------------------
(* sbwatch.notify.post_entry: the contract sizing line.  Prices are        *)
(* hundredths of a point and money is cents, so 0.25 -> 25, 5.0 -> 500 and *)
(* 1500.0 -> 150000.  A quotient is kept as a fraction [num, den] until    *)
(* the floor division, which is the only place the source rounds.          *)
TICK_SIZE == 25
TICK_VALUE == 500
RISK_PER_TRADE == 150000

\* abs(float(entry) - float(sl)) / TICK_SIZE
stop_ticks(entry, sl) == [num |-> Abs(entry - sl), den |-> TICK_SIZE]

\* stop_ticks * TICK_VALUE, in cents
risk_per_contract(entry, sl) ==
    [num |-> stop_ticks(entry, sl).num * TICK_VALUE,
     den |-> stop_ticks(entry, sl).den]

\* faulty variant: the floor is reported as it is, without the lower clamp
contracts_NoClamp(entry, sl) ==
    LET rpc == risk_per_contract(entry, sl)
    IN  IF rpc.num > 0 THEN (RISK_PER_TRADE * rpc.den) \div rpc.num ELSE 1

\* int(RISK_PER_TRADE // risk_per_contract) if risk_per_contract > 0 else 1,
\* then raised to 1 when below it
contracts(entry, sl) ==
    LET rpc == risk_per_contract(entry, sl)
        n   == IF rpc.num > 0
               THEN (RISK_PER_TRADE * rpc.den) \div rpc.num
               ELSE 1
    IN  IF n < 1 THEN 1 ELSE n

\* the two messages of one post_entry call: the entry line and the risk line
post_entry(side, entry, sl) ==
    /\ discord' = Some([side |-> IF side = "long" THEN "LONG" ELSE "SHORT",
                        entry |-> entry, sl |-> sl,
                        stop_ticks |-> stop_ticks(entry, sl),
                        risk_per_contract |-> risk_per_contract(entry, sl),
                        contracts |-> contracts(entry, sl)])
    /\ UNCHANGED <<levels, FVG_MODE, engine, _notify, _notify_callable,
                   ticks, script, log, out, live, handoff>>

\* entry / stop prices: the two pairs of test_contracts.py (100.00 / 98.00 and
\* 25000.00 / 24835.00) and prices one hundredth, one tick, and 75.00 and
\* 75.01 points away from 100.00
PostPrices ==
    {0, 9800, 10000, 10001, 10025, 17500, 17501, 2483500, 2500000}

NextNotify ==
    \E side \in {"long", "short"}, entry \in PostPrices, sl \in PostPrices :
        post_entry(side, entry, sl)

SpecNotify == Init /\ [][NextNotify]_vars

\* C18: the reported contract count is floor(1500 / (ticks * 5.0)), ticks
\* being the stop distance over 0.25, whenever that floor is at least 1, and
\* 1 otherwise (a zero stop distance included); it is never below 1.
C18_ContractSizing ==
    discord # None =>
        LET m == Val(discord)
            d == Abs(m.entry - m.sl)
        IN  /\ m.stop_ticks = [num |-> d, den |-> 25]
            /\ m.contracts >= 1
            /\ IF d > 0 /\ (150000 * 25) \div (d * 500) >= 1
               THEN m.contracts = (150000 * 25) \div (d * 500)
               ELSE m.contracts = 1

\* the second case of test_contracts.py: 165 points of stop, a floor of 0,
\* one contract reported
C18_Witness ==
    /\ discord # None
    /\ Val(discord).entry = 2500000
    /\ Val(discord).sl = 2483500
    /\ (150000 * 25) \div (16500 * 500) = 0
    /\ Val(discord).contracts = 1

C20_IntraminuteUpdate ==
    [][ (/\ _current_minute_bucket # None
         /\ ticks' # ticks
         /\ out'.obs.ts \div 60000 = Val(_current_minute_bucket))
        => /\ _A # None /\ _A' # None
           /\ Val(_A').h = Max(Val(_A).h, out'.obs.h)
           /\ Val(_A').l = Min(Val(_A).l, out'.obs.l)
           /\ Val(_A').c = out'.obs.c
           /\ Val(_A').ts = out'.obs.ts
           /\ Val(_A').o = Val(_A).o
           /\ _B' = _B /\ _C' = _C
           /\ _i' = _i
           /\ _current_minute_bucket' = _current_minute_bucket ]_vars

\* after two completed minutes a same-minute observation arrived with a lower
\* high, a lower low and another open than the in-progress bar: the bar kept
\* its high and open and took the observation's low, close and timestamp
C20_Witness ==
    /\ out.kind = "intra"
    /\ ticks > 0
    /\ _B # None /\ _C # None
    /\ Val(_A).h > out.obs.h
    /\ Val(_A).o # out.obs.o
    /\ Val(_A).l = out.obs.l
    /\ Val(_A).c = out.obs.c
    /\ Val(_A).ts = out.obs.ts

\* C21: an observation in a different minute bucket raises the bar index by
\* exactly 1 however many minutes were skipped, makes the previous in-progress
\* bar the most recent completed one and the previous most recent completed
\* bar the oldest slot, and re-seeds the in-progress bar from the observation;
\* the index changes on no other step and never decreases.
C21_NewBucketRoll ==
    [][ /\ (/\ _current_minute_bucket # None
            /\ out'.obs.ts \div 60000 # Val(_current_minute_bucket))
           => /\ _i' = _i + 1
              /\ _B' = _A
              /\ _C' = _B
              /\ _A' = Some(out'.obs)
        /\ _i' # _i
           => /\ _current_minute_bucket # None
              /\ out'.obs.ts \div 60000 # Val(_current_minute_bucket)
        /\ _i' >= _i ]_vars

\* a roll that skipped an hour: the index counts two rolls, the in-progress
\* bar is sixty minutes after the most recent completed one, and the three
\* slots hold three different bars
C21_Witness ==
    /\ out.kind = "roll"
    /\ _i = 2
    /\ Val(_A).ts \div 60000 = Val(_B).ts \div 60000 + 60
    /\ Val(_A) = out.obs
    /\ _A # _B /\ _B # _C

\* C22: an evaluation creates a gap only if the mode's reference bar has
\* |close - open| / max(epsilon, high - low) >= the displacement threshold,
\* the reference bar being the middle window bar in 3-candle mode and the
\* newest window bar in 2-candle mode (here: the in-progress bar or, counting
\* completed bars only, the most recent completed one).
C22_AsStated ==
    (Evaluated /\ out.created # {}) =>
        LET ok(b) == DispAtLeast(_displacement(b.o, b.h, b.l, b.c),
                                 SB_DISPLACEMENT_MIN)
        IN IF FVG_MODE = "3C" THEN ok(Val(_B))
           ELSE ok(Val(_A)) \/ ok(Val(_B))

\* C23: an evaluation in which a window slot is still a copy made by the seed
\* (the first roll: the oldest slot is the seed's copy of the first observed
\* bar) never creates a gap and never fires a signal, whatever the first
\* observation's open / high / low / close were.
C23_AsStated ==
    (Evaluated /\ _i = 1) => (out.created = {} /\ out.fires = <<>>)

\* C24: a pending gap is dropped once more than SB_RET_MAX_BARS bars have
\* passed since its creation without a return: in every state a pending gap
\* satisfies current index - creation index <= SB_RET_MAX_BARS.
C24_AsStated ==
    /\ _last_bull # None => _i - Val(_last_bull).i <= SB_RET_MAX_BARS
    /\ _last_bear # None => _i - Val(_last_bear).i <= SB_RET_MAX_BARS

\* C25: on_bar never compares timestamps for order.  An observation whose
\* minute bucket differs from the current one, an earlier bucket included, is
\* processed as a roll (index + 1, window shifted, evaluation run); one in the
\* current bucket with an older timestamp is folded into the in-progress bar
\* and moves its timestamp backwards; no observation is rejected for ordering.
C25_BucketArithmeticOnly ==
    [][ /\ (/\ _current_minute_bucket # None
            /\ out'.obs.ts \div 60000 # Val(_current_minute_bucket))
           => /\ _i' = _i + 1
              /\ _B' = _A /\ _C' = _B /\ _A' = Some(out'.obs)
              /\ _current_minute_bucket' = Some(out'.obs.ts \div 60000)
              /\ out'.kind = "roll" /\ ~out'.raised
        /\ (/\ _current_minute_bucket # None
            /\ out'.obs.ts \div 60000 = Val(_current_minute_bucket)
            /\ out'.obs.ts < Val(_A).ts)
           => /\ out'.kind = "intra" /\ ~out'.raised
              /\ Val(_A').ts = out'.obs.ts
              /\ Val(_A').ts < Val(_A).ts
              /\ Val(_A').h = Max(Val(_A).h, out'.obs.h)
              /\ Val(_A').l = Min(Val(_A).l, out'.obs.l)
              /\ _i' = _i ]_vars

\* a roll into an earlier minute whose evaluation recorded a gap: the
\* in-progress bar is older than the most recent completed bar
C25_Witness ==
    /\ out.kind = "roll"
    /\ ~out.raised
    /\ Val(_A).ts \div 60000 < Val(_B).ts \div 60000
    /\ out.created # {}
    /\ _i >= 2

\* C26: a price sweeps the high side iff it is strictly above at least one
\* present high level or the recorded swing high, and the low side mirrors it
\* with strictly below; an absent level never contributes.  So with no level
\* present and no swing memory recorded no signal fires and no pending gap is
\* consumed.
C26_AbsentLevelsNeverSweep ==
    [][ /\ \A p \in {9800, 9900, 10000, 10001, 10100, 10101, 10200, 10300} :
              /\ _swept_high(levels, _pre_hi, p)
                 <=> \/ \E k \in {"pdh", "asia_high", "london_high"} :
                            levels[k] # None /\ p > Val(levels[k])
                     \/ (_pre_hi # None /\ p > Val(_pre_hi))
              /\ _swept_low(levels, _pre_lo, p)
                 <=> \/ \E k \in {"pdl", "asia_low", "london_low"} :
                            levels[k] # None /\ p < Val(levels[k])
                     \/ (_pre_lo # None /\ p < Val(_pre_lo))
        /\ (levels = NoLevels /\ _pre_hi' = None /\ _pre_lo' = None)
           => /\ out'.fires = <<>>
              /\ _last_bull # None => _last_bull' # None
              /\ _last_bear # None => _last_bear' # None ]_vars

\* no level and no swing memory: an evaluation with a qualifying reference bar
\* found the oldest bar's high at or above a pending bearish gap's bottom, and
\* the gap is still pending and nothing was sent
C26_Witness ==
    /\ Evaluated
    /\ levels = NoLevels
    /\ _pre_hi = None /\ _pre_lo = None
    /\ WindowDispOk
    /\ _last_bear # None
    /\ Val(_C).h >= Val(_last_bear).gap_bot
    /\ out.fires = <<>>

C30_PendingGapWellFormed ==
    \A g \in {_last_bull, _last_bear} :
        g # None =>
            /\ Val(g).gap_top - Val(g).gap_bot >= SB_FVG_MIN
            /\ Val(g).gap_top > Val(g).gap_bot
            /\ 0 < Val(g).i
            /\ Val(g).i <= _i

\* both directions pending at once, made by different evaluations, one of
\* them before the current bar
C30_Witness ==
    /\ _last_bull # None
    /\ _last_bear # None
    /\ Val(_last_bull).i # Val(_last_bear).i
    /\ Val(_last_bear).i < _i
    /\ Val(_last_bear).gap_top - Val(_last_bear).gap_bot >= SB_FVG_MIN

\* C31: with low <= high in every observation the bullish and the bearish gap
\* condition cannot both hold for one window, so an evaluation creates at most
\* one gap and two pending gaps never share their creation index.
C31_AtMostOneGapPerEvaluation ==
    /\ _A # None
       => LET ref == GapRef(FVG_MODE, Val(_A), Val(_B))
          IN ~(/\ Val(_C).l - ref.h >= SB_FVG_MIN
               /\ ref.l - Val(_C).h >= SB_FVG_MIN)
    /\ Evaluated => Cardinality(out.created) <= 1
    /\ (_last_bull # None /\ _last_bear # None)
       => Val(_last_bull).i # Val(_last_bear).i

\* an evaluation created a bullish gap and no bearish one while a bearish gap
\* of an earlier evaluation is pending
C31_Witness ==
    /\ Evaluated
    /\ out.created = {"bull"}
    /\ _last_bull # None
    /\ Val(_last_bull).i = _i
    /\ _last_bear # None
    /\ Val(_last_bear).i < _i

\* C32: with low <= high in every observation, a non-negative stop buffer and
\* a positive reward ratio, every LONG signal has stop < entry < target and
\* every SHORT signal target < entry < stop.
C32_SignalPriceOrdering ==
    (SB_SL_BUFFER >= 0 /\ SB_TP_RR > 0) =>
        \A k \in DOMAIN out.fires :
            LET s == out.fires[k].sig
            IN IF s.side = "LONG" THEN s.sl < s.entry /\ s.entry < s.tp
               ELSE s.tp < s.entry /\ s.entry < s.sl

\* an evaluation fired a SHORT signal that was posted: its target is below
\* and its stop above its entry, the stop being the source candle's high plus
\* the buffer
C32_Witness ==
    /\ Evaluated
    /\ \E k \in FiresOf(out, "SHORT") :
           /\ out.fires[k].posted
           /\ out.fires[k].sig.tp < out.fires[k].sig.entry
           /\ out.fires[k].sig.entry < out.fires[k].sig.sl
           /\ out.fires[k].sig.sl - out.fires[k].sig.entry > SB_SL_BUFFER

\* C33: every observation feeds the swing memory before any sweep is
\* evaluated, so while every observation so far precedes the cutoff the
\* recorded swing high is >= every window bar's high and the swing low <=
\* every window bar's low: the swing levels alone yield no sweep, and with no
\* other level nothing fires.
C33_SwingMemoryCoversWindow ==
    (out.kind # "init" /\ LocalTime(out.obs.ts) < PRE10_CUTOFF)
    => /\ _pre_hi # None /\ _pre_lo # None
       /\ \A b \in {Val(_A), Val(_B), Val(_C)} :
              /\ Val(_pre_hi) >= b.h
              /\ Val(_pre_lo) <= b.l
              /\ ~_swept_high(NoLevels, _pre_hi, b.h)
              /\ ~_swept_low(NoLevels, _pre_lo, b.l)
       /\ levels = NoLevels => out.fires = <<>>

\* three minutes before the cutoff, no level configured: an evaluation found
\* a pending bullish gap returned into by the oldest bar with a qualifying
\* reference bar, the swing low equals that bar's low, and nothing fired
C33_Witness ==
    /\ Evaluated
    /\ levels = NoLevels
    /\ LocalTime(out.obs.ts) < PRE10_CUTOFF
    /\ _i >= 2
    /\ WindowDispOk
    /\ _last_bull # None
    /\ Val(_C).l <= Val(_last_bull).gap_top
    /\ Val(_pre_lo) = Val(_C).l
    /\ out.fires = <<>>

\* C34: for a posted signal with a resolved notifier the keyword call is made
\* first; the positional call is made only if the first raised TypeError, the
\* two-argument call only if the second raised as well, and any other
\* exception of the first call ends the attempts: one call when the first
\* returns normally, at most three otherwise.
C34_SinkInvocationCount ==
    \A k \in DOMAIN out.fires :
        LET p == out.fires[k]
        IN (p.posted /\ p.answers # <<>>) =>
               /\ p.calls \in 1..3
               /\ p.answers[1] = "ok" => p.calls = 1
               /\ p.answers[1] = "EX" => p.calls = 1
               /\ p.calls >= 2 <=> p.answers[1] = "TE"
               /\ p.calls = 3 <=> (p.answers[1] = "TE" /\ p.answers[2] # "ok")

\* a posted signal whose notifier raised TypeError on the keyword call and
\* another exception on the positional one: three calls, the last delivered
C34_Witness ==
    \E k \in DOMAIN out.fires :
        /\ out.fires[k].posted
        /\ out.fires[k].answers = <<"TE", "EX", "ok">>
        /\ out.fires[k].calls = 3
        /\ out.fires[k].delivered

-----------------------------------------------------------------------------
(* C35 *)

\* C35: run_live posts the ARMED notice exactly once per run: every loop
\* iteration leaves the number of ARMED notices as it was, except the first
\* one whose bar has a New York time at or after 10:00, which posts one; so
\* the count goes from 0 to 1 on that bar and never changes again.
C35_ArmedOnce ==
    [][live # None =>
           LET before == Val(live)
               after == Val(live')
               ny == LocalTime(Val(after.last))
           IN /\ after.last # None
              /\ after.armed = IF before.armed = 0 /\ ny >= 10 * 3600000
                               THEN 1 ELSE before.armed
              /\ before.armed <= 1]_vars

\* ARMED was posted once, and a later bar at or after 10:00 went through the
\* loop and reached the engine
C35_Witness ==
    /\ live # None
    /\ Val(live).armed = 1
    /\ Val(live).fed
    /\ _i >= 2
    /\ LocalTime(out.obs.ts) > 10 * 3600000

-----------------------------------------------------------------------------
(* C36 *)

\* C36, as stated: in every loop iteration of run_live whose bar has a New
\* York time at or after 11:01 the loop stops, the bar does not reach the
\* engine (whose state stays as it was), and the NO VALID SB notice is posted
\* exactly when no entry flag exists for the bar's New York date.
C36_AsStated ==
    [][live # None =>
           LET before == Val(live)
               after == Val(live')
               ts == Val(after.last)
           IN LocalTime(ts) >= 11 * 3600000 + 60000 =>
                  /\ after.done
                  /\ ~after.fed
                  /\ engine' = engine
                  /\ after.no_sb = IF LocalDate(ts) \in before.flag
                                   THEN before.no_sb
                                   ELSE before.no_sb + 1]_vars

-----------------------------------------------------------------------------
(* sbwatch.stream.minute_proxy: run_minute_proxy and the CSV tail readers *)

PROXY_HISTORY_MIN == 120

FLUSH_MS == 200

SEQ_MOD == 1000

\* LIVE_MINUTE_PATH
out_csv == <<"live_minute.csv">>

\* faulty variant: the rows are written into the live file itself
tmp_InPlace(path) == path

\* tmp = path + ".part"
tmp(path) == path \o <<".part">>

\* _minute_bucket: the start of the minute, in milliseconds
_minute_bucket(ts) == (ts \div 60000) * 60000

\* a file just opened with "w": created or truncated, nothing written yet
Opened == [hdr |-> FALSE, rows |-> <<>>, cut |-> FALSE, closed |-> FALSE]

\* a file holding the header line only, written and closed
HeaderOnly == [hdr |-> TRUE, rows |-> <<>>, cut |-> FALSE, closed |-> TRUE]

\* the text of a file as the readers split it: the header line, then one line
\* per row; a row whose bytes are not all written yet is a shorter line
Lines(content) ==
    (IF content.hdr THEN <<"ts_ms,open,high,low,close,volume">> ELSE <<>>)
    \o [k \in 1 .. Len(content.rows) |->
            [row |-> content.rows[k],
             cut |-> content.cut /\ k = Len(content.rows)]]

\* the readers' guard: not lines or lines[0] != header or len(lines) < 2
TailSkips(content) ==
    \/ content = None
    \/ Lines(Val(content)) = <<>>
    \/ Lines(Val(content))[1] # "ts_ms,open,high,low,close,volume"
    \/ Len(Lines(Val(content))) < 2

\* ts, o, h, l, c, v = line.split(","): a line cut inside its last fields
\* still splits, and the shortened close parses to a different number
ParseLine(line) ==
    IF line.cut THEN [line.row EXCEPT !.c = line.row.c \div 10]
    ELSE line.row

\* faulty variant: every bar of a minute carries the minute's first timestamp
TailSeq_NoNudge(base_ts, seq, ts) ==
    IF base_ts = None \/ (ts \div 60000) # (Val(base_ts) \div 60000)
    THEN [base_ts |-> Some(ts), seq |-> 0]
    ELSE [base_ts |-> base_ts, seq |-> 0]

\* base_ts / seq of iter_minute_csv_tail_fast after one more changed line
TailSeq(base_ts, seq, ts) ==
    IF base_ts = None \/ (ts \div 60000) # (Val(base_ts) \div 60000)
    THEN [base_ts |-> Some(ts), seq |-> 0]
    ELSE [base_ts |-> base_ts, seq |-> (seq + 1) % SEQ_MOD]

\* a reader before its first poll; fast is iter_minute_csv_tail_fast
TailStart(fast) ==
    [fast |-> fast, last_line |-> None, base_ts |-> None, seq |-> 0,
     saw |-> None, n |-> 0, yielded |-> None, snapshot |-> TRUE]

\* the writer process before line 57
ProxyStart(now, runs) ==
    [pc |-> "start", window |-> <<>>, curr |-> None, last_flush |-> 0,
     now |-> now, raw |-> 0, runs |-> runs]

\* one poll of a tail reader: read the whole file, skip it unless it has the
\* header and a row, yield the last line if it differs from last_line
TailPoll ==
    /\ tail # None
    /\ LET t == Val(tail)
           content == csv[out_csv]
       IN IF TailSkips(content)
          THEN tail' = Some([t EXCEPT !.saw = None])
          ELSE LET lines == Lines(Val(content))
                   line == lines[Len(lines)]
                   b == ParseLine(line)
                   s == TailSeq(t.base_ts, t.seq, b.ts)
               IN IF Some(line) = t.last_line
                  THEN tail' = Some([t EXCEPT !.saw = Some(line)])
                  ELSE tail' =
                       Some([t EXCEPT
                           !.saw = Some(line),
                           !.last_line = Some(line),
                           !.base_ts = IF t.fast THEN s.base_ts ELSE @,
                           !.seq = IF t.fast THEN s.seq ELSE @,
                           !.n = @ + 1,
                           !.yielded =
                               Some(IF t.fast
                                    THEN [b EXCEPT
                                             !.ts = Val(s.base_ts) + s.seq]
                                    ELSE b),
                           !.snapshot = /\ Val(content).closed
                                        /\ ~Val(content).cut])
    /\ UNCHANGED <<levels, FVG_MODE, engine, _notify, _notify_callable,
                   ticks, script, log, discord, out, live, proxy, csv,
                   sb_bot>>

\* lines 57-59, first half: open(out_csv, "w") creates or truncates the file
ProxyOpen ==
    /\ proxy # None
    /\ Val(proxy).pc = "start"
    /\ proxy' = Some([Val(proxy) EXCEPT !.pc = "header"])
    /\ csv' = [csv EXCEPT ![out_csv] = Some(Opened)]
    /\ UNCHANGED <<levels, FVG_MODE, engine, _notify, _notify_callable,
                   ticks, script, log, discord, out, live, tail, sb_bot>>

\* lines 57-59, second half: the header is written and the file closed
ProxyHeader ==
    /\ proxy # None
    /\ Val(proxy).pc = "header"
    /\ proxy' = Some([Val(proxy) EXCEPT !.pc = "idle"])
    /\ csv' = [csv EXCEPT ![out_csv] = Some(HeaderOnly)]
    /\ UNCHANGED <<levels, FVG_MODE, engine, _notify, _notify_callable,
                   ticks, script, log, discord, out, live, tail, sb_bot>>

\* the window after one raw bar: a new minute appends its first aggregate
\* (the deque drops its oldest entry beyond histmin), the same minute folds
\* the bar into the newest aggregate
ProxyWindow(window, curr, mb, b) ==
    IF curr = None THEN <<[b EXCEPT !.ts = mb]>>
    ELSE IF Some(mb) # curr
    THEN LET w == Append(window, [b EXCEPT !.ts = mb])
         IN IF Len(w) > PROXY_HISTORY_MIN THEN Tail(w) ELSE w
    ELSE [window EXCEPT ![Len(window)] =
              [@ EXCEPT !.h = Max(@, b.h), !.l = Min(@, b.l), !.c = b.c]]

\* lines 66-86 up to the open of _atomic_write: aggregate one raw bar whose
\* timestamp is the wall clock, and start a flush when 200 ms have passed
ProxyBar(ts, o, h, l, c, cap) ==
    /\ proxy # None
    /\ Val(proxy).pc = "idle"
    /\ Val(proxy).raw < cap
    /\ LET p == Val(proxy)
           mb == _minute_bucket(ts)
           w == ProxyWindow(p.window, p.curr, mb, Bar(ts, o, h, l, c))
           flush == ts - p.last_flush >= FLUSH_MS
       IN /\ proxy' = Some([p EXCEPT !.window = w, !.curr = Some(mb),
                                     !.now = ts, !.raw = @ + 1,
                                     !.pc = IF flush THEN "rows" ELSE "idle"])
          /\ csv' = IF flush
                    THEN [csv EXCEPT ![tmp(out_csv)] = Some(Opened)]
                    ELSE csv
    /\ UNCHANGED <<levels, FVG_MODE, engine, _notify, _notify_callable,
                   ticks, script, log, discord, out, live, tail, sb_bot>>

\* _atomic_write lines 43-46: the header row, then each row of the window;
\* the bytes of a row may reach the file in two writes
ProxyWrite ==
    /\ proxy # None
    /\ Val(proxy).pc = "rows"
    /\ LET p == Val(proxy)
           f == Val(csv[tmp(out_csv)])
           k == Len(f.rows)
       IN IF ~f.hdr
          THEN /\ csv' = [csv EXCEPT ![tmp(out_csv)] =
                              Some([f EXCEPT !.hdr = TRUE])]
               /\ proxy' = proxy
          ELSE IF f.cut
          THEN /\ csv' = [csv EXCEPT ![tmp(out_csv)] =
                              Some([f EXCEPT !.cut = FALSE])]
               /\ proxy' = proxy
          ELSE IF k < Len(p.window)
          THEN /\ \E cut \in BOOLEAN :
                      csv' = [csv EXCEPT ![tmp(out_csv)] =
                                 Some([f EXCEPT
                                     !.rows = Append(@, p.window[k + 1]),
                                     !.cut = cut])]
               /\ proxy' = proxy
          ELSE /\ csv' = [csv EXCEPT ![tmp(out_csv)] =
                              Some([f EXCEPT !.closed = TRUE])]
               /\ proxy' = Some([p EXCEPT !.pc = "replace"])
    /\ UNCHANGED <<levels, FVG_MODE, engine, _notify, _notify_callable,
                   ticks, script, log, discord, out, live, tail, sb_bot>>

\* _atomic_write line 47 and line 86: os.replace(tmp, path) puts the closed
\* temporary file in place of the live file in one step
ProxyReplace ==
    /\ proxy # None
    /\ Val(proxy).pc = "replace"
    /\ csv' = [f \in DOMAIN csv |->
                  IF f = out_csv THEN csv[tmp(out_csv)]
                  ELSE IF f = tmp(out_csv) THEN None
                  ELSE csv[f]]
    /\ proxy' = Some([Val(proxy) EXCEPT !.pc = "idle",
                                        !.last_flush = Val(proxy).now])
    /\ UNCHANGED <<levels, FVG_MODE, engine, _notify, _notify_callable,
                   ticks, script, log, discord, out, live, tail, sb_bot>>

\* the writer process is started again (service restart) while the files of
\* the previous run are on disk and the reader goes on polling
ProxyRestart ==
    /\ proxy # None
    /\ Val(proxy).runs > 0
    /\ Val(proxy).pc # "start"
    /\ proxy' = Some([ProxyStart(Val(proxy).now, Val(proxy).runs - 1) EXCEPT
                          !.raw = Val(proxy).raw])
    /\ UNCHANGED <<levels, FVG_MODE, engine, _notify, _notify_callable,
                   ticks, script, log, discord, out, live, csv, tail, sb_bot>>

\* the writer and one reader side by side; the raw bars carry wall-clock
\* timestamps 100 ms or 200 ms after the previous one or at the start of the
\* next minute; the live file does not exist yet or is left from an earlier
\* run; the writer may be restarted once
MaxRaw == 3

RawTimes ==
    {Val(proxy).now + 100, Val(proxy).now + FLUSH_MS,
     _minute_bucket(Val(proxy).now) + 60000}

LeftOver ==
    [HeaderOnly EXCEPT !.rows = <<Bar(T0959, 9900, 10000, 9900, 10000)>>]

InitHandoff ==
    /\ log = None
    /\ live = None
    /\ sb_bot = None
    /\ proxy = Some(ProxyStart(T1000, 1))
    /\ \E old \in {None, Some(LeftOver)} :
           csv = [f \in {out_csv, tmp(out_csv)} |->
                     IF f = out_csv THEN old ELSE None]
    /\ \E fast \in BOOLEAN : tail = Some(TailStart(fast))
    /\ InitWith(NoLevels, "3C")

NextHandoff ==
    \/ ProxyOpen
    \/ ProxyHeader
    \/ \E t \in RawTimes, b \in {BarH, BarL} :
           ProxyBar(t, b.o, b.h, b.l, b.c, MaxRaw)
    \/ ProxyWrite
    \/ ProxyReplace
    \/ ProxyRestart
    \/ TailPoll

SpecHandoff == InitHandoff /\ [][NextHandoff]_vars

-----------------------------------------------------------------------------
(* C37 *)

\* C37: a poll of iter_minute_csv_tail_fast yields exactly when the last line
\* it read differs from the last line it saw before, and never otherwise; the
\* bar it yields lies in the minute of that line, its ts_ms is not below the
\* previous yielded bar's and is strictly above it when both are of the same
\* minute, so the bars of one minute are pairwise distinct and the stream is
\* in non-decreasing timestamp order.
C37_TailFastOrdered ==
    [][(tail # None /\ tail' # tail /\ Val(tail).fast) =>
           LET t == Val(tail)
               u == Val(tail')
               changed == u.saw # None /\ u.saw # t.last_line
           IN /\ u.n = IF changed THEN t.n + 1 ELSE t.n
              /\ ~changed => u.yielded = t.yielded /\ u.last_line = t.last_line
              /\ changed =>
                     /\ u.last_line = u.saw
                     /\ Val(u.yielded).ts \div 60000
                            = Val(u.saw).row.ts \div 60000
                     /\ t.yielded # None =>
                            /\ Val(u.yielded).ts >= Val(t.yielded).ts
                            /\ (Val(u.yielded).ts \div 60000
                                    = Val(t.yielded).ts \div 60000)
                               => Val(u.yielded).ts > Val(t.yielded).ts]_vars

\* the fast reader yielded two bars of one minute (the second one nudged by
\* seq = 1) after a bar of an earlier minute
C37_Witness ==
    /\ tail # None
    /\ Val(tail).fast
    /\ Val(tail).n >= 3
    /\ Val(tail).seq = 1
    /\ Val(Val(tail).yielded).ts = Val(Val(tail).base_ts) + 1

-----------------------------------------------------------------------------
(* C38 *)

\* C38: under every interleaving of the writer's steps (truncating open,
\* header write, rows into the .part file, os.replace, restart) with the
\* reader's polls, whatever the live file holds that passes the reader's guard
\* is a closed file with the header and whole rows, and every bar a reader
\* yielded was parsed from such a snapshot.
C38_ReaderSeesSnapshots ==
    /\ tail # None => Val(tail).snapshot
    /\ (proxy # None /\ ~TailSkips(csv[out_csv])) =>
           /\ Val(csv[out_csv]).closed
           /\ ~Val(csv[out_csv]).cut

\* the reader has yielded bars of two flushes and now reads a truncated live
\* file (the writer was restarted) while rows of an earlier, abandoned flush
\* sit half-written in the .part file
C38_Witness ==
    /\ tail # None
    /\ Val(tail).n >= 2
    /\ Val(tail).saw = None
    /\ csv[out_csv] = Some(Opened)
    /\ csv[tmp(out_csv)] # None
    /\ Val(csv[tmp(out_csv)]).cut

-----------------------------------------------------------------------------
(* sb_bot.live_run *)

MIN_DISPLACEMENT_TICKS == 8

MAX_LOOKBACK_MIN == 200

\* LIVE_START / LIVE_END of the run's day
start_et == T1000

end_et == T1100

displacement_ok(a, b) == Abs(a - b) >= MIN_DISPLACEMENT_TICKS * TICK_SIZE

\* Bull: c3.low > c1.high | Bear: c3.high < c1.low; entry is the gap's middle
detect_fvg_3bar(c1, c2, c3) ==
    IF c3.l > c1.h /\ displacement_ok(c3.c, c1.c)
    THEN [kind |-> "bull", entry |-> (c1.h + c3.l) \div 2]
    ELSE IF c3.h < c1.l /\ displacement_ok(c1.c, c3.c)
    THEN [kind |-> "bear", entry |-> (c3.h + c1.l) \div 2]
    ELSE [kind |-> "none", entry |-> 0]

\* wick through any enabled level of the direction and close back over it
_swept_any(c, L, direction) ==
    LET candidates ==
            IF direction = "bull"
            THEN {L.box_low} \cup {Val(x) : x \in {L.pdl, L.asia_low,
                                                   L.london_low} \ {None}}
            ELSE {L.box_high} \cup {Val(x) : x \in {L.pdh, L.asia_high,
                                                    L.london_high} \ {None}}
    IN IF direction = "bull"
       THEN \E lv \in candidates : c.l < lv /\ c.c > lv
       ELSE \E lv \in candidates : c.h > lv /\ c.c < lv

\* faulty variant: fired_bull / fired_bear are not consulted
AlertDue_NoLatch(kind, side, sweep, fired) == kind = side /\ sweep

\* kind == "bull" and bull_sweep and not fired_bull (and the bear twin)
AlertDue(kind, side, sweep, fired) == kind = side /\ sweep /\ ~fired

\* the loop before its first message
BotStart ==
    [buf |-> <<>>, fired_bull |-> FALSE, fired_bear |-> FALSE,
     done |-> FALSE, sent |-> <<>>, last |-> T0959 - 60000]

\* one iteration of `for msg in client` for a record that converts to a
\* candle (one that does not is skipped and changes nothing)
live_run(L, ts, o, h, l, c, cap) ==
    /\ sb_bot # None
    /\ ~Val(sb_bot).done
    /\ (Len(Val(sb_bot).buf) < cap \/ ts >= end_et)
    /\ LET s == Val(sb_bot)
           buf == Append(s.buf, Bar(ts, o, h, l, c))
           n == Len(buf)
           c1 == buf[n - 2]
           c2 == buf[n - 1]
           c3 == buf[n]
           fvg == detect_fvg_3bar(c1, c2, c3)
           long == AlertDue(fvg.kind, "bull", _swept_any(c3, L, "bull"),
                            s.fired_bull)
           short == AlertDue(fvg.kind, "bear", _swept_any(c3, L, "bear"),
                             s.fired_bear)
           slL == Min(c1.l, Min(c2.l, c3.l)) - TICK_SIZE
           slS == Max(c1.h, Max(c2.h, c3.h)) + TICK_SIZE
       IN IF ts < start_et
          THEN sb_bot' = Some([s EXCEPT !.last = ts])
          ELSE IF ts >= end_et
          THEN sb_bot' = Some([s EXCEPT !.last = ts, !.done = TRUE])
          ELSE IF n < 3
          THEN sb_bot' = Some([s EXCEPT !.last = ts, !.buf = buf])
          ELSE sb_bot' =
               Some([s EXCEPT
                   !.last = ts,
                   !.buf = IF n > MAX_LOOKBACK_MIN
                           THEN SubSeq(buf, n - MAX_LOOKBACK_MIN + 1, n)
                           ELSE buf,
                   !.fired_bull = @ \/ long,
                   !.fired_bear = @ \/ short,
                   !.sent = @ \o (IF long
                                  THEN <<[side |-> "long", bar |-> ts,
                                          entry |-> fvg.entry, sl |-> slL,
                                          buffered |-> n]>>
                                  ELSE <<>>)
                              \o (IF short
                                  THEN <<[side |-> "short", bar |-> ts,
                                          entry |-> fvg.entry, sl |-> slS,
                                          buffered |-> n]>>
                                  ELSE <<>>)])
    /\ UNCHANGED <<levels, FVG_MODE, engine, _notify, _notify_callable,
                   ticks, script, log, discord, out, live, proxy, csv, tail>>

\* levels.json of a day with a 10300 .. 10500 box, with and without the
\* previous day's and the overnight levels
BotLevels ==
    {[box_low |-> 10300, box_high |-> 10500, pdl |-> None, pdh |-> None,
      asia_low |-> None, asia_high |-> None, london_low |-> None,
      london_high |-> None],
     [box_low |-> 10300, box_high |-> 10500, pdl |-> Some(10000),
      pdh |-> Some(10100), asia_low |-> None, asia_high |-> None,
      london_low |-> Some(9800), london_high |-> Some(10400)]}

\* one-minute candles: below the box, above it, and one that gaps up / down
\* to the box edge, wicks through it and closes back over it
BotBars ==
    {BarL,
     [o |-> 10800, h |-> 10800, l |-> 10700, c |-> 10700],
     [o |-> 10250, h |-> 10400, l |-> 10200, c |-> 10350],
     [o |-> 10550, h |-> 10600, l |-> 10400, c |-> 10450]}

\* consecutive minutes from 09:59, or a jump to the end of the window
BotTimes ==
    {t \in {Val(sb_bot).last + 60000, end_et - 60000, end_et,
            end_et + 60000} : t > Val(sb_bot).last}

MaxBotBars == 4

InitBot ==
    /\ log = None
    /\ live = None
    /\ proxy = None /\ csv = None /\ tail = None
    /\ sb_bot = Some(BotStart)
    /\ \E L \in BotLevels : InitWith(L, "3C")

NextBot ==
    \E t \in BotTimes, b \in BotBars :
        live_run(levels, t, b.o, b.h, b.l, b.c, MaxBotBars)

SpecBot == InitBot /\ [][NextBot]_vars

-----------------------------------------------------------------------------
(* C39 *)

\* C39: every alert of sb_bot.live_run is sent for the bar just read, whose
\* time is inside [window_start, window_end), with at least three in-window
\* bars buffered, and no alert of the same side was sent before in the run; a
\* bar at or after window_end ends the loop without an alert, and nothing is
\* read or sent after the loop has ended.
C39_BotAlertsOncePerSide ==
    [][sb_bot # None =>
           LET s == Val(sb_bot)
               u == Val(sb_bot')
               new == SubSeq(u.sent, Len(s.sent) + 1, Len(u.sent))
           IN /\ ~s.done
              /\ SubSeq(u.sent, 1, Len(s.sent)) = s.sent
              /\ Len(new) <= 1
              /\ \A k \in DOMAIN new :
                     /\ new[k].bar = u.last
                     /\ start_et <= new[k].bar /\ new[k].bar < end_et
                     /\ new[k].buffered >= 3
                     /\ Len(u.buf) >= 3
                     /\ \A j \in DOMAIN s.sent : s.sent[j].side # new[k].side
              /\ u.last >= end_et => u.done /\ new = <<>>
              /\ u.done => u.last >= end_et]_vars

\* a long and a short alert were sent for in-window bars, and the loop then
\* ended on a bar at or after window_end
C39_Witness ==
    /\ sb_bot # None
    /\ Val(sb_bot).done
    /\ Len(Val(sb_bot).sent) = 2
    /\ Val(sb_bot).sent[1].side # Val(sb_bot).sent[2].side
    /\ Len(Val(sb_bot).buf) >= 4

====
